---- MODULE Spec2Model ----
(***************************************************************************)
(* price-parser: extraction of an amount and a currency from a text.       *)
(*                                                                         *)
(* A text (Python str) is a sequence of one-character strings, so that     *)
(* every regular expression of price_parser/parser.py is modelled by what  *)
(* it does on the characters.  Python's None is the value None below,      *)
(* which is no text (its only element is not a character).                 *)
(*                                                                         *)
(* A regular expression is modelled by the search the re module runs:      *)
(* the start positions are tried from left to right, and at one start the  *)
(* alternatives and the repetitions are tried in the engine's priority     *)
(* order (first alternative first, greedy: longest first, lazy: shortest   *)
(* first), the first complete match being the result.                      *)
(***************************************************************************)
EXTENDS Integers, Sequences, FiniteSets, TLC

None == <<"None">>

\* A character outside ASCII is written by its code point: "U+20AC" is the
\* euro sign, "U+00A0" the no-break space.
EURO == "U+20AC"

----------------------------------------------------------------------------
(* Characters and character classes of the re module (\d, \s, \w, \W).     *)

Digits == {"0", "1", "2", "3", "4", "5", "6", "7", "8", "9"}

Spaces == {" ", "\t", "\n", "\r", "\f", "U+00A0"}

LowerLetters ==
    {"a", "b", "c", "d", "e", "f", "g", "h", "i", "j", "k", "l", "m",
     "n", "o", "p", "q", "r", "s", "t", "u", "v", "w", "x", "y", "z"}

UpperLetters ==
    {"A", "B", "C", "D", "E", "F", "G", "H", "I", "J", "K", "L", "M",
     "N", "O", "P", "Q", "R", "S", "T", "U", "V", "W", "X", "Y", "Z"}

\* the characters outside ASCII of the currency symbols that \w matches
OtherLetters ==
    {"U+00F6", "U+010D", "U+0111", "U+0142", "U+0173", "U+0192", "U+0394", "U+03C1",
     "U+03C7", "U+0420", "U+0430", "U+0431", "U+0432", "U+0433", "U+0434", "U+0438",
     "U+043B", "U+043C", "U+043D", "U+0440", "U+0442", "U+0443", "U+04A3", "U+0564",
     "U+0580", "U+0623", "U+0625", "U+0627", "U+0628", "U+062A", "U+062C", "U+062F",
     "U+0631", "U+0633", "U+0639", "U+0642", "U+0643", "U+0644", "U+0645", "U+0646",
     "U+0648", "U+064A", "U+06CC", "U+0783", "U+0928", "U+0930", "U+0995", "U+099F",
     "U+2133"}

IsDigit(c) == c \in Digits

IsSpace(c) == c \in Spaces

IsWordChar(c) ==
    c \in Digits \cup LowerLetters \cup UpperLetters \cup OtherLetters \cup {"_"}

IsNonWordChar(c) == ~IsWordChar(c)

DigitValue(c) ==
    CASE c = "0" -> 0 [] c = "1" -> 1 [] c = "2" -> 2 [] c = "3" -> 3
      [] c = "4" -> 4 [] c = "5" -> 5 [] c = "6" -> 6 [] c = "7" -> 7
      [] c = "8" -> 8 [] c = "9" -> 9

LowerChar(c) ==
    CASE c = "A" -> "a" [] c = "B" -> "b" [] c = "C" -> "c" [] c = "D" -> "d"
      [] c = "E" -> "e" [] c = "F" -> "f" [] c = "G" -> "g" [] c = "H" -> "h"
      [] c = "I" -> "i" [] c = "J" -> "j" [] c = "K" -> "k" [] c = "L" -> "l"
      [] c = "M" -> "m" [] c = "N" -> "n" [] c = "O" -> "o" [] c = "P" -> "p"
      [] c = "Q" -> "q" [] c = "R" -> "r" [] c = "S" -> "s" [] c = "T" -> "t"
      [] c = "U" -> "u" [] c = "V" -> "v" [] c = "W" -> "w" [] c = "X" -> "x"
      [] c = "Y" -> "y" [] c = "Z" -> "z" [] OTHER -> c

----------------------------------------------------------------------------
(* str methods.                                                            *)

\* s[i-1:j-1] of Python, for 1 <= i <= j <= Len(s) + 1
Slice(s, i, j) == SubSeq(s, i, j - 1)

\* s[i-1:].startswith(w)
StartsWithAt(s, i, w) ==
    /\ i + Len(w) - 1 <= Len(s)
    /\ \A k \in 1..Len(w) : s[i + k - 1] = w[k]

\* w in s
Contains(s, w) == \E i \in 1..(Len(s) + 1) : StartsWithAt(s, i, w)

\* s.count(c), c one character
Count(s, c) == Cardinality({i \in 1..Len(s) : s[i] = c})

\* s.lower()
Lower(s) == [i \in 1..Len(s) |-> LowerChar(s[i])]

\* s.replace(c, w), c one character
RECURSIVE Replace(_, _, _)
Replace(s, c, w) ==
    IF s = <<>> THEN <<>>
    ELSE (IF Head(s) = c THEN w ELSE <<Head(s)>>) \o Replace(Tail(s), c, w)

\* s.lstrip(chars), s.rstrip(chars), chars a set of characters
RECURSIVE LStrip(_, _)
LStrip(s, chars) ==
    IF s /= <<>> /\ Head(s) \in chars THEN LStrip(Tail(s), chars) ELSE s

RECURSIVE RStrip(_, _)
RStrip(s, chars) ==
    IF s /= <<>> /\ s[Len(s)] \in chars
    THEN RStrip(SubSeq(s, 1, Len(s) - 1), chars)
    ELSE s

\* s.strip()
Strip(s) == LStrip(RStrip(s, Spaces), Spaces)

\* s.split(): the maximal runs of non-whitespace characters
RECURSIVE Split(_)
Split(s) ==
    LET t == LStrip(s, Spaces)
        RECURSIVE WordLen(_)
        WordLen(i) == IF i <= Len(t) /\ ~IsSpace(t[i]) THEN WordLen(i + 1) ELSE i - 1
        n == WordLen(1)
    IN  IF t = <<>> THEN <<>>
        ELSE <<SubSeq(t, 1, n)>> \o Split(SubSeq(t, n + 1, Len(t)))

\* the end (exclusive) of the maximal whitespace run that starts at i
RECURSIVE SpaceRunEnd(_, _)
SpaceRunEnd(s, i) ==
    IF i <= Len(s) /\ IsSpace(s[i]) THEN SpaceRunEnd(s, i + 1) ELSE i

\* the end (exclusive) of the maximal digit run that starts at i
RECURSIVE DigitRunEnd(_, _)
DigitRunEnd(s, i) ==
    IF i <= Len(s) /\ IsDigit(s[i]) THEN DigitRunEnd(s, i + 1) ELSE i

----------------------------------------------------------------------------
(* The number words, word: (scale, increment), in the order of the table,  *)
(* which is the order of the alternatives of _NUMBER_WORDS_PATTERN.  Every *)
(* scale is a power of ten: the table keeps the exponent (scale = 10^pow). *)

_NUMBER_WORDS ==
    << [word |-> <<"z", "e", "r", "o">>, pow |-> 0, increment |-> 0],
       [word |-> <<"o", "n", "e">>, pow |-> 0, increment |-> 1],
       [word |-> <<"t", "w", "o">>, pow |-> 0, increment |-> 2],
       [word |-> <<"t", "h", "r", "e", "e">>, pow |-> 0, increment |-> 3],
       [word |-> <<"f", "o", "u", "r">>, pow |-> 0, increment |-> 4],
       [word |-> <<"f", "i", "v", "e">>, pow |-> 0, increment |-> 5],
       [word |-> <<"s", "i", "x">>, pow |-> 0, increment |-> 6],
       [word |-> <<"s", "e", "v", "e", "n">>, pow |-> 0, increment |-> 7],
       [word |-> <<"e", "i", "g", "h", "t">>, pow |-> 0, increment |-> 8],
       [word |-> <<"n", "i", "n", "e">>, pow |-> 0, increment |-> 9],
       [word |-> <<"t", "e", "n">>, pow |-> 0, increment |-> 10],
       [word |-> <<"e", "l", "e", "v", "e", "n">>, pow |-> 0, increment |-> 11],
       [word |-> <<"t", "w", "e", "l", "v", "e">>, pow |-> 0, increment |-> 12],
       [word |-> <<"t", "h", "i", "r", "t", "e", "e", "n">>, pow |-> 0, increment |-> 13],
       [word |-> <<"f", "o", "u", "r", "t", "e", "e", "n">>, pow |-> 0, increment |-> 14],
       [word |-> <<"f", "i", "f", "t", "e", "e", "n">>, pow |-> 0, increment |-> 15],
       [word |-> <<"s", "i", "x", "t", "e", "e", "n">>, pow |-> 0, increment |-> 16],
       [word |-> <<"s", "e", "v", "e", "n", "t", "e", "e", "n">>, pow |-> 0, increment |-> 17],
       [word |-> <<"e", "i", "g", "h", "t", "e", "e", "n">>, pow |-> 0, increment |-> 18],
       [word |-> <<"n", "i", "n", "e", "t", "e", "e", "n">>, pow |-> 0, increment |-> 19],
       [word |-> <<"t", "w", "e", "n", "t", "y">>, pow |-> 0, increment |-> 20],
       [word |-> <<"t", "h", "i", "r", "t", "y">>, pow |-> 0, increment |-> 30],
       [word |-> <<"f", "o", "r", "t", "y">>, pow |-> 0, increment |-> 40],
       [word |-> <<"f", "i", "f", "t", "y">>, pow |-> 0, increment |-> 50],
       [word |-> <<"s", "i", "x", "t", "y">>, pow |-> 0, increment |-> 60],
       [word |-> <<"s", "e", "v", "e", "n", "t", "y">>, pow |-> 0, increment |-> 70],
       [word |-> <<"e", "i", "g", "h", "t", "y">>, pow |-> 0, increment |-> 80],
       [word |-> <<"n", "i", "n", "e", "t", "y">>, pow |-> 0, increment |-> 90],
       [word |-> <<"h", "u", "n", "d", "r", "e", "d">>, pow |-> 2, increment |-> 0],
       [word |-> <<"t", "h", "o", "u", "s", "a", "n", "d">>, pow |-> 3, increment |-> 0],
       [word |-> <<"m", "i", "l", "l", "i", "o", "n">>, pow |-> 6, increment |-> 0],
       [word |-> <<"b", "i", "l", "l", "i", "o", "n">>, pow |-> 9, increment |-> 0],
       [word |-> <<"t", "r", "i", "l", "l", "i", "o", "n">>, pow |-> 12, increment |-> 0],
       [word |-> <<"a", "n", "d">>, pow |-> 0, increment |-> 0] >>

\* the ends (exclusive) of the alternatives of _NUMBER_WORDS_PATTERN that
\* match at i, in the order the alternation tries them
RECURSIVE NumberWordEndsFrom(_, _, _)
NumberWordEndsFrom(s, i, k) ==
    IF k > Len(_NUMBER_WORDS) THEN <<>>
    ELSE (IF StartsWithAt(s, i, _NUMBER_WORDS[k].word)
          THEN <<i + Len(_NUMBER_WORDS[k].word)>>
          ELSE <<>>) \o NumberWordEndsFrom(s, i, k + 1)

_NUMBER_WORDS_PATTERN(s, i) == NumberWordEndsFrom(s, i, 1)

----------------------------------------------------------------------------
(* extract_price_text.  A match is the span of group 1: start inclusive,   *)
(* end exclusive; NoMatch when the search fails.                           *)

NoMatch == [start |-> 0, end |-> 0]

Min(S) == CHOOSE x \in S : \A y \in S : x <= y

\* re.sub(r'\s+', ' ', price)
RECURSIVE CollapseSpaces(_)
CollapseSpaces(s) ==
    IF s = <<>> THEN <<>>
    ELSE IF IsSpace(Head(s)) THEN <<" ">> \o CollapseSpaces(LStrip(s, Spaces))
    ELSE <<Head(s)>> \o CollapseSpaces(Tail(s))

\* [\d\s.,]
IsNumberChar(c) == IsDigit(c) \/ IsSpace(c) \/ c \in {".", ","}

\* (?:[\d\s.,]|{words}): the ends of one repetition at i, in priority order
NumberItemEnds(s, i) ==
    (IF i <= Len(s) /\ IsNumberChar(s[i]) THEN <<i + 1>> ELSE <<>>)
        \o _NUMBER_WORDS_PATTERN(s, i)

\* (?:\d|{words}): the ends of the first item of the general pattern at i
NumberStartEnds(s, i) ==
    (IF i <= Len(s) /\ IsDigit(s[i]) THEN <<i + 1>> ELSE <<>>)
        \o _NUMBER_WORDS_PATTERN(s, i)

\* (?:$|[^\d]) at e
NotADigitAt(s, e) == e > Len(s) \/ ~IsDigit(s[e])

\* (\s*?)? taken, then \d(?(2)\d|...) with group 2 set, then the close of
\* group 1 and (?:$|[^\d]); p is the position after the euro sign.  The
\* lazy \s*? tries the shortest run of whitespace first.
EuroFractionAfterGroup2(s, p) ==
    LET ends == {q + 2 : q \in {q \in p..SpaceRunEnd(s, p) :
                                   /\ q + 1 <= Len(s)
                                   /\ IsDigit(s[q])
                                   /\ IsDigit(s[q + 1])
                                   /\ NotADigitAt(s, q + 2)}}
    IN  IF ends = {} THEN 0 ELSE Min(ends)

\* (\s*?)? skipped, then \d(?(2)...|\d*?) with group 2 unset, then the close
\* of group 1 and (?:$|[^\d]); the lazy \d*? tries the fewest digits first.
EuroFractionWithoutGroup2(s, p) ==
    LET ends == {e \in (p + 1)..DigitRunEnd(s, p + 1) : NotADigitAt(s, e)}
    IN  IF p <= Len(s) /\ IsDigit(s[p]) /\ ends /= {} THEN Min(ends) ELSE 0

\* the pattern from its \d before the euro sign on, at j: the end of
\* group 1, or 0.  The optional group 2 is greedy: taken first, skipped last.
EuroTail(s, j) ==
    IF ~(j <= Len(s) /\ IsDigit(s[j])) THEN 0
    ELSE LET euros == {e \in (j + 1)..SpaceRunEnd(s, j + 1) :
                          e <= Len(s) /\ s[e] = EURO}
         IN  IF euros = {} THEN 0
             ELSE LET p == Min(euros) + 1
                      taken == EuroFractionAfterGroup2(s, p)
                  IN  IF taken /= 0 THEN taken
                      ELSE EuroFractionWithoutGroup2(s, p)

\* the lazy (?:[\d\s.,]|{words})*? followed by the rest of the euro pattern:
\* no repetition first, then one more, its alternatives in order
RECURSIVE EuroLazy(_, _), EuroLazyAlt(_, _)
EuroLazy(s, i) ==
    LET r == EuroTail(s, i)
    IN  IF r /= 0 THEN r ELSE EuroLazyAlt(s, NumberItemEnds(s, i))

EuroLazyAlt(s, ends) ==
    IF ends = <<>> THEN 0
    ELSE LET r == EuroLazy(s, Head(ends))
         IN  IF r /= 0 THEN r ELSE EuroLazyAlt(s, Tail(ends))

\* re.search of the euro pattern: the leftmost start that matches
RECURSIVE EuroSearchFrom(_, _)
EuroSearchFrom(s, i) ==
    IF i > Len(s) + 1 THEN NoMatch
    ELSE LET e == EuroLazy(s, i)
         IN  IF e /= 0 THEN [start |-> i, end |-> e]
             ELSE EuroSearchFrom(s, i + 1)

EuroSearch(s) == EuroSearchFrom(s, 1)

\* \s*?(?:[^%\d]|$) at j
NotAPercentAt(s, j) ==
    \E q \in j..SpaceRunEnd(s, j) :
        q > Len(s) \/ (s[q] /= "%" /\ ~IsDigit(s[q]))

\* the greedy (?:[\d\s.,]|{words})* followed by the rest of the general
\* pattern: one more repetition first, its alternatives in order, then none
RECURSIVE NumberGreedy(_, _), NumberGreedyAlt(_, _)
NumberGreedy(s, i) ==
    LET r == NumberGreedyAlt(s, NumberItemEnds(s, i))
    IN  IF r /= 0 THEN r
        ELSE IF NotAPercentAt(s, i) THEN i ELSE 0

NumberGreedyAlt(s, ends) ==
    IF ends = <<>> THEN 0
    ELSE LET r == NumberGreedy(s, Head(ends))
         IN  IF r /= 0 THEN r ELSE NumberGreedyAlt(s, Tail(ends))

\* re.search of the general pattern: the leftmost start that matches
RECURSIVE NumberSearchFrom(_, _)
NumberSearchFrom(s, i) ==
    IF i > Len(s) THEN NoMatch
    ELSE LET e == NumberGreedyAlt(s, NumberStartEnds(s, i))
         IN  IF e /= 0 THEN [start |-> i, end |-> e]
             ELSE NumberSearchFrom(s, i + 1)

NumberSearch(s) == NumberSearchFrom(s, 1)

\* the extraction with the two last steps exchanged: 'free' is looked for
\* before the match is
extract_price_text_free_first(price_arg) ==
    LET price == CollapseSpaces(price_arg)
        euro == IF Count(price, EURO) = 1 THEN EuroSearch(price) ELSE NoMatch
        m == IF euro /= NoMatch THEN euro ELSE NumberSearch(price)
        price_text == RStrip(Slice(price, m.start, m.end), {",", "."})
    IN  IF Contains(Lower(price), <<"f", "r", "e", "e">>)
        THEN <<"0">>
        ELSE IF m /= NoMatch
        THEN IF Count(price_text, ".") = 1
             THEN Strip(price_text)
             ELSE Strip(LStrip(price_text, {",", "."}))
        ELSE None

extract_price_text(price_arg) ==
    LET price == CollapseSpaces(price_arg)
        euro == IF Count(price, EURO) = 1 THEN EuroSearch(price) ELSE NoMatch
        m == IF euro /= NoMatch THEN euro ELSE NumberSearch(price)
        price_text == RStrip(Slice(price, m.start, m.end), {",", "."})
    IN  IF m /= NoMatch
        THEN IF Count(price_text, ".") = 1
             THEN Strip(price_text)
             ELSE Strip(LStrip(price_text, {",", "."}))
        ELSE IF Contains(Lower(price), <<"f", "r", "e", "e">>)
             THEN <<"0">>
             ELSE None

----------------------------------------------------------------------------
(* decimal.Decimal: <<sign, coefficient, exponent>>, as Decimal.as_tuple(); *)
(* the value is (-1)^sign * coef * 10^exp.  The amounts of the bounded     *)
(* inputs stay far below the 28 digits of the default context, so that no  *)
(* operation rounds.                                                       *)

InvalidOperation == <<"raised", "InvalidOperation">>

AssertionError == <<"raised", "AssertionError">>

Pow10(n) == 10 ^ n

MkDecimal(sign, coef, exp) == <<sign, coef, exp>>

Sign(d) == d[1]

Coef(d) == d[2]

Exp(d) == d[3]

\* Decimal(n) of a natural number n
DecimalOfInt(n) == MkDecimal(0, n, 0)

\* the precision of the context of the decimal module: an operation rounds
\* its result to Prec significant digits
Prec == 28

\* a coefficient of at most nine digits is held as an integer, a longer
\* one as its digits, the integers of the model checker ending at 2^31
WideDecimal(sign, digits, exp) == <<sign, digits, exp, "wide">>

IsWide(d) == Len(d) = 4

DigitChar(n) == <<"0", "1", "2", "3", "4", "5", "6", "7", "8", "9">>[n + 1]

Zeros(n) == [k \in 1..n |-> "0"]

\* digits without the leading zeros
RECURSIVE StripZeros(_)
StripZeros(ds) ==
    IF ds /= <<>> /\ Head(ds) = "0" THEN StripZeros(Tail(ds)) ELSE ds

\* not a number and infinities: Decimal('NaN'), Decimal('Infinity'), ...
NonFinite(sign) == MkDecimal(sign, 0, "F")

\* the value of a string of digits
RECURSIVE DigitsValue(_)
DigitsValue(ds) ==
    IF ds = <<>> THEN 0
    ELSE 10 * DigitsValue(SubSeq(ds, 1, Len(ds) - 1)) + DigitValue(ds[Len(ds)])

\* the decimal of a sign, the digits of a coefficient and an exponent
FromDigits(sign, digits, exp) ==
    LET ds == StripZeros(digits)
    IN  IF Len(ds) <= 9 THEN MkDecimal(sign, DigitsValue(ds), exp)
        ELSE WideDecimal(sign, ds, exp)

\* Decimal(word): [sign] digits [. [digits]] or [sign] . digits, with an
\* optional exponent e[sign]digits; or a special value; otherwise the
\* InvalidOperation that _words_to_digits catches
Decimal(word) ==
    LET sign == IF word /= <<>> /\ Head(word) = "-" THEN 1 ELSE 0
        body == IF word /= <<>> /\ Head(word) \in {"+", "-"} THEN Tail(word) ELSE word
        i == DigitRunEnd(body, 1)
        point == i <= Len(body) /\ body[i] = "."
        f == IF point THEN DigitRunEnd(body, i + 1) ELSE i
        int_digits == Slice(body, 1, i)
        frac_digits == IF point THEN Slice(body, i + 1, f) ELSE <<>>
        has_exp == f <= Len(body) /\ body[f] \in {"e", "E"}
        exp_neg == has_exp /\ f + 1 <= Len(body) /\ body[f + 1] = "-"
        exp_from == IF has_exp /\ f + 1 <= Len(body) /\ body[f + 1] \in {"+", "-"}
                    THEN f + 2 ELSE f + 1
        exp_digits == IF has_exp THEN Slice(body, exp_from, Len(body) + 1) ELSE <<>>
        well_formed ==
            /\ Len(int_digits) + Len(frac_digits) > 0
            /\ IF has_exp
               THEN exp_digits /= <<>> /\ \A k \in 1..Len(exp_digits) : IsDigit(exp_digits[k])
               ELSE f = Len(body) + 1
        exponent == IF exp_neg THEN 0 - DigitsValue(exp_digits) ELSE DigitsValue(exp_digits)
    IN  IF Lower(body) \in {<<"n", "a", "n">>, <<"s", "n", "a", "n">>, <<"i", "n", "f">>,
                            <<"i", "n", "f", "i", "n", "i", "t", "y">>}
        THEN NonFinite(sign)
        ELSE IF well_formed
        THEN FromDigits(sign, int_digits \o frac_digits, exponent - Len(frac_digits))
        ELSE InvalidOperation

\* the digits of a natural number, without leading zeros (none for 0)
RECURSIVE DigitsOf(_)
DigitsOf(n) ==
    IF n = 0 THEN <<>> ELSE Append(DigitsOf(n \div 10), DigitChar(n % 10))

\* the digits of the coefficient of a decimal
CoefDigits(d) == IF IsWide(d) THEN Coef(d) ELSE DigitsOf(Coef(d))

\* the digits a and b, of the same length, added from position k to the
\* left with a carry
RECURSIVE AddWithCarry(_, _, _, _)
AddWithCarry(a, b, k, carry) ==
    IF k = 0 THEN (IF carry = 1 THEN <<"1">> ELSE <<>>)
    ELSE LET t == DigitValue(a[k]) + DigitValue(b[k]) + carry
         IN  Append(AddWithCarry(a, b, k - 1, t \div 10), DigitChar(t % 10))

\* the coefficient of d written with the exponent e <= Exp(d), on n digits
Aligned(d, e, n) ==
    LET ds == CoefDigits(d) \o Zeros(Exp(d) - e)
    IN  Zeros(n - Len(ds)) \o ds

\* the rounding of the context, ROUND_HALF_EVEN to Prec significant digits,
\* of the result of an operation
RoundToContext(sign, digits, exp) ==
    LET ds == StripZeros(digits)
        kept == SubSeq(ds, 1, Prec)
        rest == SubSeq(ds, Prec + 1, Len(ds))
        tail_zero == \A k \in 2..Len(rest) : rest[k] = "0"
        up == \/ DigitValue(rest[1]) > 5
              \/ DigitValue(rest[1]) = 5 /\ ~tail_zero
              \/ DigitValue(rest[1]) = 5 /\ tail_zero /\ DigitValue(kept[Prec]) % 2 = 1
        inc == AddWithCarry(kept, Zeros(Prec - 1) \o <<"1">>, Prec, 0)
    IN  IF Len(ds) <= Prec THEN FromDigits(sign, ds, exp)
        ELSE IF ~up THEN FromDigits(sign, kept, exp + Len(rest))
        ELSE IF Len(inc) = Prec THEN FromDigits(sign, inc, exp + Len(rest))
        ELSE FromDigits(sign, SubSeq(inc, 1, Prec), exp + Len(rest) + 1)

\* both coefficients, written with the exponent e, have at most eight digits
FitsNarrow(a, b, e) ==
    /\ ~IsWide(a) /\ ~IsWide(b)
    /\ Exp(a) - e <= 8 /\ Coef(a) < Pow10(8 - (Exp(a) - e))
    /\ Exp(b) - e <= 8 /\ Coef(b) < Pow10(8 - (Exp(b) - e))

\* a + b of two non-negative finite decimals: the exponent of the exact sum
\* is the smaller exponent, and the sum is rounded to the context
DecimalAdd(a, b) ==
    LET e == IF Exp(a) <= Exp(b) THEN Exp(a) ELSE Exp(b)
        na == Len(CoefDigits(a)) + Exp(a) - e
        nb == Len(CoefDigits(b)) + Exp(b) - e
        n == IF na >= nb THEN na ELSE nb
    IN  IF FitsNarrow(a, b, e)
        THEN MkDecimal(0, Coef(a) * Pow10(Exp(a) - e) + Coef(b) * Pow10(Exp(b) - e), e)
        ELSE RoundToContext(0, AddWithCarry(Aligned(a, e, n), Aligned(b, e, n), n, 0), e)

\* a * Decimal(10 ** pow) of a non-negative finite decimal, rounded to the
\* context
DecimalScale(a, pow) ==
    IF ~IsWide(a) /\ pow <= 8 /\ Coef(a) < Pow10(8 - pow)
    THEN MkDecimal(0, Coef(a) * Pow10(pow), Exp(a))
    ELSE RoundToContext(0, CoefDigits(a) \o Zeros(pow), Exp(a))

\* a == b of two finite decimals: equal values, whatever the exponents
DecimalEq(a, b) ==
    LET e == IF Exp(a) <= Exp(b) THEN Exp(a) ELSE Exp(b)
        na == Len(CoefDigits(a)) + Exp(a) - e
        nb == Len(CoefDigits(b)) + Exp(b) - e
        n == IF na >= nb THEN na ELSE nb
    IN  /\ IF FitsNarrow(a, b, e)
           THEN Coef(a) * Pow10(Exp(a) - e) = Coef(b) * Pow10(Exp(b) - e)
           ELSE Aligned(a, e, n) = Aligned(b, e, n)
        /\ (Sign(a) = Sign(b) \/ CoefDigits(a) = <<>>)

\* a value that is a Decimal: neither None nor a raised exception
IsDecimal(d) == Len(d) = 3 \/ IsWide(d)

----------------------------------------------------------------------------
(* get_decimal_separator.                                                  *)

\* $ of the re module: the end of the text, or just before a final newline
AtEnd(s, e) == e = Len(s) + 1 \/ (e = Len(s) /\ s[e] = "\n")

\* SeparatorAt without the rule of the three digits: any number of digits
\* after the separator would do
SeparatorAtAnyDigits(s, d) ==
    /\ d <= Len(s)
    /\ s[d] \in {".", ",", EURO}
    /\ \E e \in (d + 2)..DigitRunEnd(s, d + 1) : AtEnd(s, e)

\* ([.,\u20ac])(?:\d{1,2}?|\d{4}\d*?)$ at d
SeparatorAt(s, d) ==
    /\ d <= Len(s)
    /\ s[d] \in {".", ",", EURO}
    /\ \E e \in (d + 2)..DigitRunEnd(s, d + 1) :
          /\ (e - d - 1 \in {1, 2} \/ e - d - 1 >= 4)
          /\ AtEnd(s, e)

Max(S) == CHOOSE x \in S : \A y \in S : x >= y

\* re.search of _search_decimal_sep: the leftmost start, the greedy \d*
\* giving digits back from the longest run; the result is group 1
RECURSIVE DecimalSepSearchFrom(_, _)
DecimalSepSearchFrom(s, i) ==
    IF i > Len(s) THEN None
    ELSE LET seps == {d \in i..DigitRunEnd(s, i) : SeparatorAt(s, d)}
         IN  IF seps /= {} THEN <<s[Max(seps)]>>
             ELSE DecimalSepSearchFrom(s, i + 1)

_search_decimal_sep(s) == DecimalSepSearchFrom(s, 1)

get_decimal_separator(price) == _search_decimal_sep(price)

----------------------------------------------------------------------------
(* _words_to_digits.                                                       *)

IsNumberWord(word) == \E k \in 1..Len(_NUMBER_WORDS) : _NUMBER_WORDS[k].word = word

NumberWord(word) ==
    _NUMBER_WORDS[CHOOSE k \in 1..Len(_NUMBER_WORDS) : _NUMBER_WORDS[k].word = word]

\* WordsLoop without the flush: current would never be added to result
\* before the end
RECURSIVE WordsLoopNoFlush(_, _, _)
WordsLoopNoFlush(tokens, current, result) ==
    IF tokens = <<>> THEN DecimalAdd(result, current)
    ELSE LET word == Head(tokens)
             increment == Decimal(word)
             digits == DigitRunEnd(word, 1) - 1
         IN  IF IsNumberWord(word)
             THEN WordsLoopNoFlush(Tail(tokens),
                      DecimalAdd(DecimalScale(current, NumberWord(word).pow),
                                 DecimalOfInt(NumberWord(word).increment)),
                      result)
             ELSE IF increment = InvalidOperation THEN None
             ELSE IF digits = 0 THEN AssertionError
             ELSE WordsLoopNoFlush(Tail(tokens),
                      DecimalAdd(DecimalScale(current, digits), increment),
                      result)

\* the loop over words.split(): the tokens left, and the two registers
RECURSIVE WordsLoop(_, _, _)
WordsLoop(tokens, current, result) ==
    IF tokens = <<>> THEN DecimalAdd(result, current)
    ELSE LET word == Head(tokens)
             increment == Decimal(word)
             digits == DigitRunEnd(word, 1) - 1      \* len(match[0]), 0: no match
         IN  IF IsNumberWord(word)
             THEN LET next == DecimalAdd(DecimalScale(current, NumberWord(word).pow),
                                         DecimalOfInt(NumberWord(word).increment))
                  IN  IF NumberWord(word).pow > 2
                      THEN WordsLoop(Tail(tokens), DecimalOfInt(0), DecimalAdd(result, next))
                      ELSE WordsLoop(Tail(tokens), next, result)
             ELSE IF increment = InvalidOperation THEN None
             ELSE IF digits = 0 THEN AssertionError
             ELSE WordsLoop(Tail(tokens),
                            DecimalAdd(DecimalScale(current, digits), increment),
                            result)

_words_to_digits(words) ==
    IF Strip(words) = <<>> THEN None
    ELSE WordsLoop(Split(words), DecimalOfInt(0), DecimalOfInt(0))

----------------------------------------------------------------------------
(* parse_number.                                                           *)

\* \s+(?=\W) at i: the longest run of whitespace followed by a non-word
\* character (whitespace is one); its end, or 0
SpacesBeforeNonWord(s, i) ==
    LET ends == {e \in (i + 1)..SpaceRunEnd(s, i) : e <= Len(s) /\ IsNonWordChar(s[e])}
    IN  IF ends = {} THEN 0 ELSE Max(ends)

\* (?<=\W)\s+ at i: its end, or 0
SpacesAfterNonWord(s, i) ==
    IF i > 1 /\ IsNonWordChar(s[i - 1]) /\ SpaceRunEnd(s, i) > i
    THEN SpaceRunEnd(s, i)
    ELSE 0

\* re.sub(r'\s+(?=\W)|(?<=\W)\s+', '', num), scanning from i
RECURSIVE RemoveSpacesFrom(_, _)
RemoveSpacesFrom(s, i) ==
    IF i > Len(s) THEN <<>>
    ELSE LET first == SpacesBeforeNonWord(s, i)
             e == IF first /= 0 THEN first ELSE SpacesAfterNonWord(s, i)
         IN  IF e /= 0 THEN RemoveSpacesFrom(s, e)
             ELSE <<s[i]>> \o RemoveSpacesFrom(s, i + 1)

RemoveSpaces(s) == RemoveSpacesFrom(s, 1)

\* parse_number without its second argument: the separator would always be
\* the detected one
parse_number_detected(num_arg, decimal_separator_arg) ==
    IF num_arg = None \/ num_arg = <<>> THEN None
    ELSE LET num == RemoveSpaces(Strip(num_arg))
             decimal_separator == get_decimal_separator(num)
         IN  IF decimal_separator = None
             THEN _words_to_digits(Replace(Replace(num, ".", <<>>), ",", <<>>))
             ELSE IF decimal_separator = <<".">>
             THEN _words_to_digits(Replace(num, ",", <<>>))
             ELSE IF decimal_separator = <<",">>
             THEN _words_to_digits(Replace(Replace(num, ".", <<>>), ",", <<".">>))
             ELSE IF decimal_separator /= <<EURO>> THEN AssertionError
             ELSE _words_to_digits(
                      Replace(Replace(Replace(num, ".", <<>>), ",", <<>>), EURO, <<".">>))

parse_number(num_arg, decimal_separator_arg) ==
    IF num_arg = None \/ num_arg = <<>> THEN None
    ELSE LET num == RemoveSpaces(Strip(num_arg))
             decimal_separator ==
                 IF decimal_separator_arg = None \/ decimal_separator_arg = <<>>
                 THEN get_decimal_separator(num)
                 ELSE decimal_separator_arg
         IN  IF decimal_separator = None
             THEN _words_to_digits(Replace(Replace(num, ".", <<>>), ",", <<>>))
             ELSE IF decimal_separator = <<".">>
             THEN _words_to_digits(Replace(num, ",", <<>>))
             ELSE IF decimal_separator = <<",">>
             THEN _words_to_digits(Replace(Replace(num, ".", <<>>), ",", <<".">>))
             ELSE IF decimal_separator /= <<EURO>> THEN AssertionError
             ELSE _words_to_digits(
                      Replace(Replace(Replace(num, ".", <<>>), ",", <<>>), EURO, <<".">>))

----------------------------------------------------------------------------
(* The currency symbols.  OTHER_CURRENCY_SYMBOLS is the set of the source sorted by  *)
(* decreasing length; symbols of one length are in the set's order there,  *)
(* which no search depends on (two different symbols of one length never   *)
(* match at the same place).                                               *)

SAFE_CURRENCY_SYMBOLS ==
    << <<"B", "d", "s", "$">>, <<"C", "U", "C", "$">>, <<"M", "O", "P", "$">>,
       <<"A", "R", "$">>, <<"A", "U", "$">>, <<"B", "N", "$">>, <<"B", "Z", "$">>,
       <<"C", "A", "$">>, <<"C", "L", "$">>, <<"C", "O", "$">>, <<"C", "V", "$">>,
       <<"H", "K", "$">>, <<"M", "X", "$">>, <<"N", "T", "$">>, <<"N", "Z", "$">>,
       <<"T", "T", "$">>, <<"R", "D", "$">>, <<"W", "S", "$">>, <<"U", "S", "$">>,
       <<"$", "U">>, <<"C", "$">>, <<"J", "$">>, <<"N", "$">>,
       <<"R", "$">>, <<"S", "$">>, <<"T", "$">>, <<"Z", "$">>,
       <<"A", "$">>, <<"S", "Y", "U+00A3">>, <<"L", "B", "U+00A3">>, <<"C", "N", "U+00A5">>,
       <<"G", "H", "U+20B5">>, <<"$">>, <<EURO>>, <<"U+00A3">>,
       <<"z", "U+0142">>, <<"Z", "U+0142">>, <<"K", "U+010D">>, <<"U+20BD">>,
       <<"U+00A5">>, <<"U+FFE5">>, <<"U+0E3F">>, <<"U+0564", "U+0580", ".">>,
       <<"U+0564", "U+0580">>, <<"U+20A6">>, <<"U+20B4">>, <<"U+20B1">>,
       <<"U+09F3">>, <<"U+20AD">>, <<"U+20AA">>, <<"U+FDFC">>,
       <<"U+17DB">>, <<"U+20A9">>, <<"U+20AB">>, <<"U+20A1">>,
       <<"U+099F", "U+0995", "U+09BE">>, <<"U+0192">>, <<"U+20B2">>, <<"U+060B">>,
       <<"U+20AE">>, <<"U+0928", "U+0947", "U+0930", "U+0942">>, <<"U+20A8">>, <<"U+20B6">>,
       <<"U+20BE">>, <<"U+058F">>, <<"U+0783">>, <<"U+09F2">>,
       <<"U+0AF1">>, <<"U+0BF9">>, <<"U+20A0">>, <<"U+20A2">>,
       <<"U+20A3">>, <<"U+20A4">>, <<"U+20A7">>, <<"U+20AF">>,
       <<"U+20B0">>, <<"U+20B3">>, <<"U+20B7">>, <<"U+20B8">>,
       <<"U+20B9">>, <<"U+20BA">>, <<"U+20BC">>, <<"U+20BE">>,
       <<"U+20BF">>, <<"U+2133">>, <<"U+0631", ".", "U+0642", ".", "U+200F">>, <<"U+062F", ".", "U+0643", ".", "U+200F">>,
       <<"U+062F", ".", "U+0639", ".", "U+200F">>, <<"U+0631", ".", "U+0639", ".", "U+200F">>, <<"U+0631", ".", "U+064A", ".", "U+200F">>,
       <<"U+0631", ".", "U+0633", ".", "U+200F">>, <<"U+062F", ".", "U+062C", ".", "U+200F">>, <<"U+062F", ".", "U+0645", ".", "U+200F">>,
       <<"U+062F", ".", "U+0625", ".", "U+200F">>, <<"U+062F", ".", "U+062A", ".", "U+200F">>, <<"U+062F", ".", "U+0644", ".", "U+200F">>,
       <<"U+0644", ".", "U+0633", ".", "U+200F">>, <<"U+062F", ".", "U+0628", ".", "U+200F">>, <<"U+062F", ".", "U+0623", ".", "U+200F">>,
       <<"U+062C", ".", "U+0645", ".", "U+200F">>, <<"U+0644", ".", "U+0644", ".", "U+200F">>, <<" ", "U+062A", "U+0648", "U+0645", "U+0627", "U+0646">>,
       <<"U+062A", "U+0648", "U+0645", "U+0627", "U+0646">>, <<"E", "U", "R">>, <<"e", "u", "r", "o">>,
       <<"e", "u", "r">>, <<"C", "H", "F">>, <<"D", "K", "K">>, <<"R", "p">>,
       <<"l", "e", "i">>, <<"U+0440", "U+0443", "U+0431", ".">>, <<"U+0440", "U+0443", "U+0431">>, <<"U+0433", "U+0440", "U+043D", ".">>,
       <<"U+0433", "U+0440", "U+043D">>, <<"U+0434", "U+0438", "U+043D", ".">>, <<"D", "i", "n", "a", "r", "a">>,
       <<"U+0434", "U+0438", "U+043D", "U+0430", "U+0440">>, <<"U+043B", "U+0432", ".">>, <<"U+043B", "U+0432">>, <<"U+0440", ".">>,
       <<"U+0442", "U+04A3", "U+0433">>, <<"U+0442", "U+04A3", "U+0433", ".">>, <<"U+043C", "U+0430", "U+043D", ".">> >>

DOLLAR_CODES ==
    << <<"A", "E", "D">>, <<"A", "M", "D">>, <<"A", "U", "D">>, <<"B", "B", "D">>,
       <<"B", "H", "D">>, <<"B", "S", "D">>, <<"B", "M", "D">>, <<"B", "N", "D">>,
       <<"B", "Z", "D">>, <<"C", "A", "D">>, <<"D", "Z", "D">>, <<"F", "J", "D">>,
       <<"G", "M", "D">>, <<"G", "Y", "D">>, <<"H", "K", "D">>, <<"I", "Q", "D">>,
       <<"J", "M", "D">>, <<"J", "O", "D">>, <<"K", "W", "D">>, <<"K", "Y", "D">>,
       <<"L", "R", "D">>, <<"L", "Y", "D">>, <<"M", "A", "D">>, <<"M", "K", "D">>,
       <<"N", "A", "D">>, <<"N", "Z", "D">>, <<"R", "S", "D">>, <<"S", "B", "D">>,
       <<"S", "G", "D">>, <<"S", "R", "D">>, <<"S", "T", "D">>, <<"T", "N", "D">>,
       <<"T", "T", "D">>, <<"T", "V", "D">>, <<"T", "W", "D">>, <<"U", "S", "D">>,
       <<"V", "N", "D">>, <<"X", "B", "D">>, <<"X", "C", "D">>, <<"X", "P", "D">>,
       <<"Z", "W", "D">>, <<"G", "R", "D">> >>

OTHER_CURRENCY_SYMBOLS ==
    << <<"t", "o", "l", "a", "r", "j", "e", "v">>, <<"D", "-", "M", "a", "r", "k">>,
       <<"B", "s", ".", "F", ".">>, <<"S", "L", " ", "R", "e">>, <<"S", "u", "c", "r", "e">>,
       <<"k", "r", "o", "o", "n">>, <<"A", "f", "l", ".">>, <<"F", "C", "F", "A">>,
       <<"F", "r", "C", "D">>, <<"M", "U", "R", "s">>, <<"N", "P", "R", "s">>,
       <<"P", "K", "R", "s">>, <<"P", "t", "a", "s">>, <<"S", "L", "R", "s">>,
       <<"d", "i", "n", ".">>, <<"l", "i", "t", "U+0173">>, <<"m", "a", "n", ".">>,
       <<"U+0394", "U+03C1", "U+03C7", ".">>, <<"U+0631", "U+06CC", "U+0627", "U+0644">>, <<"A", "E", "D">>,
       <<"A", "F", "L">>, <<"A", "F", "N">>, <<"A", "L", "L">>, <<"A", "M", "D">>,
       <<"A", "N", "G">>, <<"A", "O", "A">>, <<"A", "R", "S">>, <<"A", "T", "S">>,
       <<"A", "U", "D">>, <<"A", "W", "G">>, <<"A", "Z", "N">>, <<"B", "/", ".">>,
       <<"B", "A", "M">>, <<"B", "B", "D">>, <<"B", "D", "T">>, <<"B", "E", "F">>,
       <<"B", "G", "N">>, <<"B", "H", "D">>, <<"B", "I", "F">>, <<"B", "M", "D">>,
       <<"B", "N", "D">>, <<"B", "O", "B">>, <<"B", "O", "V">>, <<"B", "R", "L">>,
       <<"B", "S", "D">>, <<"B", "T", "N">>, <<"B", "W", "P">>, <<"B", "Y", "N">>,
       <<"B", "Z", "D">>, <<"C", "A", "D">>, <<"C", "D", "F">>, <<"C", "F", "A">>,
       <<"C", "F", "P">>, <<"C", "H", "E">>, <<"C", "H", "W">>, <<"C", "L", "F">>,
       <<"C", "L", "P">>, <<"C", "N", "Y">>, <<"C", "O", "P">>, <<"C", "O", "U">>,
       <<"C", "R", "C">>, <<"C", "U", "C">>, <<"C", "U", "P">>, <<"C", "V", "E">>,
       <<"C", "Y", "P">>, <<"C", "Z", "K">>, <<"D", "E", "M">>, <<"D", "J", "F">>,
       <<"D", "O", "P">>, <<"D", "Z", "D">>, <<"D", "k", "r">>, <<"E", "E", "K">>,
       <<"E", "G", "P">>, <<"E", "R", "N">>, <<"E", "S", "P">>, <<"E", "T", "B">>,
       <<"F", "B", "u">>, <<"F", "I", "M">>, <<"F", "J", "D">>, <<"F", "K", "P">>,
       <<"F", "R", "F">>, <<"F", "d", "j">>, <<"F", "r", ".">>, <<"G", "B", "P">>,
       <<"G", "E", "L">>, <<"G", "G", "P">>, <<"G", "H", "S">>, <<"G", "I", "P">>,
       <<"G", "M", "D">>, <<"G", "N", "F">>, <<"G", "R", "D">>, <<"G", "T", "Q">>,
       <<"G", "Y", "D">>, <<"H", "K", "D">>, <<"H", "N", "L">>, <<"H", "R", "K">>,
       <<"H", "T", "G">>, <<"H", "U", "F">>, <<"I", "D", "R">>, <<"I", "E", "P">>,
       <<"I", "L", "S">>, <<"I", "M", "P">>, <<"I", "N", "R">>, <<"I", "Q", "D">>,
       <<"I", "R", "R">>, <<"I", "R", "U+00A3">>, <<"I", "S", "K">>, <<"I", "T", "L">>,
       <<"I", "k", "r">>, <<"J", "E", "P">>, <<"J", "M", "D">>, <<"J", "O", "D">>,
       <<"J", "P", "Y">>, <<"K", "E", "S">>, <<"K", "G", "S">>, <<"K", "H", "R">>,
       <<"K", "M", "F">>, <<"K", "P", "W">>, <<"K", "R", "W">>, <<"K", "W", "D">>,
       <<"K", "Y", "D">>, <<"K", "Z", "T">>, <<"K", "s", "h">>, <<"L", "A", "K">>,
       <<"L", "B", "P">>, <<"L", "E", "I">>, <<"L", "K", "R">>, <<"L", "R", "D">>,
       <<"L", "S", "L">>, <<"L", "T", "L">>, <<"L", "U", "F">>, <<"L", "V", "L">>,
       <<"L", "Y", "D">>, <<"L", "e", "i">>, <<"L", "e", "k">>, <<"M", "A", "D">>,
       <<"M", "D", "L">>, <<"M", "G", "A">>, <<"M", "K", "D">>, <<"M", "M", "K">>,
       <<"M", "N", "T">>, <<"M", "O", "P">>, <<"M", "R", "O">>, <<"M", "R", "f">>,
       <<"M", "T", "L">>, <<"M", "T", "n">>, <<"M", "U", "R">>, <<"M", "V", "R">>,
       <<"M", "W", "K">>, <<"M", "X", "N">>, <<"M", "X", "V">>, <<"M", "Y", "R">>,
       <<"M", "Z", "N">>, <<"N", "A", "D">>, <<"N", "G", "N">>, <<"N", "I", "O">>,
       <<"N", "L", "G">>, <<"N", "O", "K">>, <<"N", "P", "R">>, <<"N", "Z", "D">>,
       <<"N", "f", "k">>, <<"N", "k", "r">>, <<"N", "u", ".">>, <<"O", "M", "R">>,
       <<"P", "A", "B">>, <<"P", "E", "N">>, <<"P", "G", "K">>, <<"P", "H", "P">>,
       <<"P", "K", "R">>, <<"P", "L", "N">>, <<"P", "R", "B">>, <<"P", "T", "E">>,
       <<"P", "Y", "G">>, <<"P", "t", "a">>, <<"P", "t", "s">>, <<"Q", "A", "R">>,
       <<"R", "O", "N">>, <<"R", "S", "D">>, <<"R", "U", "B">>, <<"R", "W", "F">>,
       <<"S", "/", ".">>, <<"S", "A", "R">>, <<"S", "B", "D">>, <<"S", "C", "R">>,
       <<"S", "D", "G">>, <<"S", "E", "K">>, <<"S", "G", "D">>, <<"S", "H", "P">>,
       <<"S", "I", "T">>, <<"S", "K", "K">>, <<"S", "L", "L">>, <<"S", "O", "S">>,
       <<"S", "R", "D">>, <<"S", "S", "P">>, <<"S", "T", "D">>, <<"S", "V", "C">>,
       <<"S", "Y", "P">>, <<"S", "Z", "L">>, <<"S", "k", "r">>, <<"S", "s", "h">>,
       <<"T", "H", "B">>, <<"T", "J", "S">>, <<"T", "M", "T">>, <<"T", "N", "D">>,
       <<"T", "O", "P">>, <<"T", "R", "Y">>, <<"T", "S", "h">>, <<"T", "T", "D">>,
       <<"T", "V", "D">>, <<"T", "W", "D">>, <<"T", "Z", "S">>, <<"U", "A", "H">>,
       <<"U", "G", "X">>, <<"U", "S", "D">>, <<"U", "S", "N">>, <<"U", "S", "h">>,
       <<"U", "Y", "I">>, <<"U", "Y", "U">>, <<"U", "Z", "S">>, <<"V", "A", "L">>,
       <<"V", "E", "F">>, <<"V", "N", "D">>, <<"V", "U", "V">>, <<"W", "S", "T">>,
       <<"X", "A", "F">>, <<"X", "A", "G">>, <<"X", "A", "U">>, <<"X", "B", "A">>,
       <<"X", "B", "B">>, <<"X", "B", "C">>, <<"X", "B", "D">>, <<"X", "C", "D">>,
       <<"X", "D", "R">>, <<"X", "O", "F">>, <<"X", "P", "D">>, <<"X", "P", "F">>,
       <<"X", "P", "T">>, <<"X", "S", "U">>, <<"X", "T", "S">>, <<"X", "U", "A">>,
       <<"Y", "E", "R">>, <<"Z", "A", "R">>, <<"Z", "M", "K">>, <<"Z", "M", "W">>,
       <<"Z", "W", "D">>, <<"Z", "W", "L">>, <<"f", "l", ".">>, <<"f", "r", ".">>,
       <<"l", "e", "u">>, <<"m", "k", ".">>, <<"p", "l", "n">>, <<"U+0394", "U+03C1", ".">>,
       <<"A", "f">>, <<"B", "D">>, <<"B", "r">>, <<"B", "s">>, <<"C", "F">>,
       <<"D", "A">>, <<"D", "M">>, <<"D", "T">>, <<"D", "b">>, <<"F", "C">>,
       <<"F", "G">>, <<"F", "R">>, <<"F", "t">>, <<"J", "D">>, <<"K", "D">>,
       <<"K", "M">>, <<"K", "z">>, <<"L", "D">>, <<"L", "e">>, <<"L", "m">>,
       <<"L", "s">>, <<"L", "t">>, <<"M", "K">>, <<"P", "t">>, <<"Q", "R">>,
       <<"R", "M">>, <<"R", "f">>, <<"R", "s">>, <<"S", "R">>, <<"S", "k">>,
       <<"T", "L">>, <<"T", "k">>, <<"U", "F">>, <<"U", "M">>, <<"V", "T">>,
       <<"Y", "R">>, <<"Z", "K">>, <<"k", "n">>, <<"k", "r">>, <<"U+00F6", "S">>,
       <<"U+0111">>, <<"U+0420">>, <<"U+0440">>, <<"U+0930">> >>

\* or_regex(symbols): the compiled alternation of the symbols.  For every
\* character it holds the symbols that start with it, in the order of the
\* list, which is the order in which the alternation tries them
or_regex(symbols) ==
    [c \in {symbols[k][1] : k \in 1..Len(symbols)} |->
        SelectSeq(symbols, LAMBDA w : w[1] = c)]

\* the alternatives of pattern that match at i
SymbolsAt(pattern, s, i) ==
    IF s[i] \in DOMAIN pattern
    THEN {k \in 1..Len(pattern[s[i]]) : StartsWithAt(s, i, pattern[s[i]][k])}
    ELSE {}

\* pattern.search(s): the leftmost place where a symbol matches, and there
\* the first symbol of the list that matches; the result is m.group(0),
\* None when there is no match
Search(pattern, s) ==
    LET places == {i \in 1..Len(s) : SymbolsAt(pattern, s, i) /= {}}
    IN  IF places = {} THEN None
        ELSE LET i == Min(places)
             IN  pattern[s[i]][Min(SymbolsAt(pattern, s, i))]

\* \b at i: exactly one of the characters before and at i is a word character
WordBoundary(s, i) ==
    (i > 1 /\ IsWordChar(s[i - 1])) /= (i <= Len(s) /\ IsWordChar(s[i]))

\* (?=\$?(?:[\W\d]|$)) at e: with the dollar sign taken first, then without
AfterDollarCode(s, e) ==
    \E q \in {e} \cup (IF e <= Len(s) /\ s[e] = "$" THEN {e + 1} ELSE {}) :
        \/ AtEnd(s, q)
        \/ q <= Len(s) /\ (IsNonWordChar(s[q]) \/ IsDigit(s[q]))

\* \b(?:codes)(?=...) at i: the codes of DOLLAR_CODES that match there
DollarCodesAt(s, i) ==
    IF WordBoundary(s, i)
    THEN {k \in 1..Len(DOLLAR_CODES) :
             /\ StartsWithAt(s, i, DOLLAR_CODES[k])
             /\ AfterDollarCode(s, i + Len(DOLLAR_CODES[k]))}
    ELSE {}

\* _DOLLAR_REGEX.search(s): the leftmost place, and there the first code
_DOLLAR_REGEX(s) ==
    LET places == {i \in 1..Len(s) : DollarCodesAt(s, i) /= {}}
    IN  IF places = {} THEN None
        ELSE DOLLAR_CODES[Min(DollarCodesAt(s, Min(places)))]

_search_dollar_code(s) == _DOLLAR_REGEX(s)

\* the two patterns, compiled once when the module is loaded
SafeCurrencyPattern == or_regex(SAFE_CURRENCY_SYMBOLS)

UnsafeCurrencyPattern == or_regex(OTHER_CURRENCY_SYMBOLS)

\* a search of the safe symbols that finds nothing
SearchNoSafeCurrency(s) == None

_search_safe_currency(s) == Search(SafeCurrencyPattern, s)

_search_unsafe_currency(s) == Search(UnsafeCurrencyPattern, s)

\* the truth value of an Optional[str]
Truthy(s) == s /= None /\ s /= <<>>

\* Methods with the two insertions exchanged: the dollar-code check of the
\* hint would come before the one of the price
MethodsHintDollarFirst(price, currency_hint) ==
    LET methods == << [meth |-> "safe",   attr |-> price],
                      [meth |-> "safe",   attr |-> currency_hint],
                      [meth |-> "unsafe", attr |-> price],
                      [meth |-> "unsafe", attr |-> currency_hint] >>
        with_price == IF Truthy(price) /\ Contains(price, <<"$">>)
                      THEN <<[meth |-> "dollar", attr |-> price]>> \o methods
                      ELSE methods
    IN  IF Truthy(currency_hint) /\ Contains(currency_hint, <<"$">>)
        THEN <<[meth |-> "dollar", attr |-> currency_hint]>> \o with_price
        ELSE with_price

\* Methods with the second and the third pair exchanged: the unsafe symbols
\* of the price would come before the safe symbols of the hint
MethodsUnsafePriceSecond(price, currency_hint) ==
    LET methods == << [meth |-> "safe",   attr |-> price],
                      [meth |-> "unsafe", attr |-> price],
                      [meth |-> "safe",   attr |-> currency_hint],
                      [meth |-> "unsafe", attr |-> currency_hint] >>
        with_hint == IF Truthy(currency_hint) /\ Contains(currency_hint, <<"$">>)
                     THEN <<[meth |-> "dollar", attr |-> currency_hint]>> \o methods
                     ELSE methods
    IN  IF Truthy(price) /\ Contains(price, <<"$">>)
        THEN <<[meth |-> "dollar", attr |-> price]>> \o with_hint
        ELSE with_hint

\* the list of (method, attr) pairs, the dollar-code checks inserted at 0
Methods(price, currency_hint) ==
    LET methods == << [meth |-> "safe",   attr |-> price],
                      [meth |-> "safe",   attr |-> currency_hint],
                      [meth |-> "unsafe", attr |-> price],
                      [meth |-> "unsafe", attr |-> currency_hint] >>
        with_hint == IF Truthy(currency_hint) /\ Contains(currency_hint, <<"$">>)
                     THEN <<[meth |-> "dollar", attr |-> currency_hint]>> \o methods
                     ELSE methods
    IN  IF Truthy(price) /\ Contains(price, <<"$">>)
        THEN <<[meth |-> "dollar", attr |-> price]>> \o with_hint
        ELSE with_hint

\* meth(attr)
CallMethod(meth, attr) ==
    CASE meth = "dollar" -> _search_dollar_code(attr)
      [] meth = "safe"   -> _search_safe_currency(attr)
      [] meth = "unsafe" -> _search_unsafe_currency(attr)

\* the loop over methods: the first match is returned
RECURSIVE FirstMethodMatch(_)
FirstMethodMatch(methods) ==
    IF methods = <<>> THEN None
    ELSE LET m == IF Truthy(Head(methods).attr)
                  THEN CallMethod(Head(methods).meth, Head(methods).attr)
                  ELSE None
         IN  IF m /= None THEN m ELSE FirstMethodMatch(Tail(methods))

extract_currency_symbol(price, currency_hint) ==
    FirstMethodMatch(Methods(price, currency_hint))

----------------------------------------------------------------------------
(* The calls.  fn is the function called and price, currency_hint, num and *)
(* decimal_separator its arguments (None for an argument the function does *)
(* not have); amount_text, amount_num and currency are the locals of       *)
(* Price.fromstring; ret is the value returned, and pc = "raised" after an *)
(* exception left the call, ret being the exception; previous holds the   *)
(* Price of an earlier call whose amount_text is being parsed again.       *)

VARIABLES fn, price, currency_hint, num, decimal_separator, locale,
          pc, amount_text, amount_num, currency, ret, previous

vars == <<fn, price, currency_hint, num, decimal_separator, locale,
          pc, amount_text, amount_num, currency, ret, previous>>

args == <<fn, price, currency_hint, num, decimal_separator, locale>>

\* the exception of a call with a keyword that the function does not have
TypeError == <<"raised", "TypeError">>

\* the attributes of the class Price
\* a Price with amount_text and currency exchanged
PriceExchanged(amount, currency_symbol, text) ==
    [amount |-> amount, currency |-> text, amount_text |-> currency_symbol]

Price(amount, currency_symbol, text) ==
    [amount |-> amount, currency |-> currency_symbol, amount_text |-> text]

\* the texts of at most n characters of chars
TextsUpTo(chars, n) == UNION {[1..k -> chars] : k \in 0..n}

\* the bounds of the prices of Init, one family of texts per alphabet
MaxNumberLen == 4

MaxEuroLen == 6

MaxSignLen == 4

NumberChars == {"1", "0", ".", ",", " ", "%"}

EuroChars == {"1", ".", " ", EURO}

SignChars == {"-", "1", " ", "$"}

\* the prices of the doctests, of the tests and of the scenarios
PriceExamples ==
    { <<"p", "r", "i", "c", "e", ":", " ", "$", "1", "2", ".", "9", "9">>,
      <<"F", "r", "e", "e">>,
      <<"F", "o", "o">>,
      <<"1", ",", "2", "3", "5", " ", "U", "S", "D">>,
      <<"9", "9", " ", EURO, ",", " ", "7", "9", " ", EURO>>,
      <<"9", "9", " ", EURO, " ", "7", "9", " ", EURO>>,
      <<"3", "5", EURO, " ", "9", "9">>,
      <<"3", "5", EURO, " ", "9", "9", "9">>,
      <<"3", "5", EURO, "9", "9">>,
      <<"1", ",", "2", "3", "5", EURO, " ", "9", "9">>,
      <<"5", "0", "%", " ", "O", "F", "F">>,
      <<"5", "0", "%">>,
      <<"5", "0">>,
      <<"$", "1", "U+00A0", "2", "9", "8", ",", "0", "0">>,
      <<"$", ".", "7", "5">>,
      <<"$", " ", "4", " ", "m", "i", "l", "l", "i", "o", "n">>,
      <<"f", "o", "u", "r", " ", "m", "i", "l", "l", "i", "o", "n">>,
      <<"-", "5", ".", "0", "0", " ", "E", "U", "R">>,
      <<"N", "Z", "D", " ", "$", "1", "2", "3">>,
      <<"w", "a", "s", " ", "$", "2", "0", ",", " ", "n", "o", "w", " ", "$", "1", "5">>,
      <<"1", "2", " ", "p", "c", "s", " ", "3", "5", EURO, " ", "9", "9">>,
      <<"1", " ", "x", " ", "1", EURO, "1">>,
      <<"$", " ", "f", "o", "u", "r", " ", "m", "i", "l", "l", "i", "o", "n">>,
      <<"$", " ", "1", " ", "t", "h", "o", "u", "s", "a", "n", "d", " ",
        "9", "9", "9", " ", EURO, " ", "9", "9">>,
      <<"F", "R", "E", "E", " ", "5">>,
      <<"1", ".", "1", ".", " ">>,
      <<"$", "4", ".", "5", " ", "m", "i", "l", "l", "i", "o", "n">> }

\* the prices '$ <numeral> <word>' and '$ <numeral> <word> <numeral>'
PhraseNumerals == {<<"1">>, <<"1", "2">>, <<"9", "9">>}

PhraseWords ==
    { <<"h", "u", "n", "d", "r", "e", "d">>,
      <<"t", "h", "o", "u", "s", "a", "n", "d">>,
      <<"m", "i", "l", "l", "i", "o", "n">> }

Phrase(a, w, b) == a \o <<" ">> \o w \o (IF b = <<>> THEN <<>> ELSE <<" ">> \o b)

PhrasePrices ==
    { <<"$", " ">> \o Phrase(a, w, b) :
        a \in PhraseNumerals, w \in PhraseWords, b \in PhraseNumerals \cup {<<>>} }

PriceTexts ==
    TextsUpTo(NumberChars, MaxNumberLen) \cup TextsUpTo(EuroChars, MaxEuroLen)
        \cup TextsUpTo(SignChars, MaxSignLen) \cup PriceExamples \cup PhrasePrices

DecimalSeparators == {None, <<".">>, <<",">>, <<EURO>>}

\* decimal_separator is an unchecked str: two values outside the three
\* that parse_number handles
OtherSeparators == {<<";">>, <<" ">>}

HintTexts == {None, <<>>, <<"E", "U", "R">>, <<" ", "$">>}

\* the prices that are also given with the keyword locale, as in
\* test_localized_price_parsing
LocaleExamples ==
    { <<"$", " ", "4", " ", "m", "i", "l", "l", "o", "n", "e", "s">>,
      <<"$", " ", "4", " ", "m", "i", "l", "l", "i", "o", "n">>,
      <<"5", "0">> }

\* the prices that are one word of the table
WordPrices == {_NUMBER_WORDS[k].word : k \in 1..Len(_NUMBER_WORDS)}

\* parse_price(price, currency_hint, decimal_separator) is called: every
\* price without a hint, and the prices of the examples with every hint;
\* the prices of the examples also with the other separators; locale is
\* None when the call has no keyword locale
Init ==
    /\ fn = "parse_price"
    /\ \E a \in ((PriceTexts \cup LocaleExamples \cup WordPrices) \X {None})
                  \cup ((PriceExamples \cup {None}) \X HintTexts) :
          price = a[1] /\ currency_hint = a[2]
    /\ num = None
    /\ decimal_separator \in
           DecimalSeparators
               \cup (IF price \in PriceExamples \cup {None} /\ currency_hint = None
                     THEN OtherSeparators ELSE {})
    /\ locale \in (IF price \in LocaleExamples THEN {None, <<"e", "s">>} ELSE {None})
    /\ pc = "call"
    /\ amount_text = None
    /\ amount_num = None
    /\ currency = None
    /\ ret = None
    /\ previous = <<>>

\* the call binds its arguments to the parameters of fromstring, which
\* has no parameter locale: the keyword raises TypeError before the body
RejectKeyword ==
    /\ fn = "parse_price" /\ pc = "call"
    /\ locale /= None
    /\ pc' = "raised"
    /\ ret' = TypeError
    /\ UNCHANGED <<args, previous, amount_text, amount_num, currency>>

\* amount_text = extract_price_text(price) if price is not None else None
ExtractPriceText ==
    /\ fn = "parse_price" /\ pc = "call"
    /\ locale = None
    /\ amount_text' = IF price /= None THEN extract_price_text(price) ELSE None
    /\ pc' = "extracted"
    /\ UNCHANGED <<args, previous, amount_num, currency, ret>>

\* amount_num = parse_number(amount_text, decimal_separator)
\*              if amount_text is not None else None
ParseNumber ==
    /\ fn = "parse_price" /\ pc = "extracted"
    /\ LET r == IF amount_text /= None
                THEN parse_number(amount_text, decimal_separator)
                ELSE None
       IN  IF r = AssertionError
           THEN pc' = "raised" /\ ret' = r /\ UNCHANGED amount_num
           ELSE pc' = "parsed" /\ amount_num' = r /\ UNCHANGED ret
    /\ UNCHANGED <<args, previous, amount_text, currency>>

\* currency = extract_currency_symbol(price, currency_hint), stripped, and
\* return Price(amount=amount_num, currency=currency, amount_text=amount_text)
ReturnPrice ==
    /\ fn = "parse_price" /\ pc = "parsed"
    /\ LET c == extract_currency_symbol(price, currency_hint)
       IN  currency' = IF c /= None THEN Strip(c) ELSE None
    /\ ret' = Price(amount_num, currency', amount_text)
    /\ pc' = "returned"
    /\ UNCHANGED <<args, previous, amount_text, amount_num>>

Next == RejectKeyword \/ ExtractPriceText \/ ParseNumber \/ ReturnPrice

Spec == Init /\ [][Next]_vars

----------------------------------------------------------------------------
(* The Price that parse_price returned, in the hands of the caller.  The   *)
(* class is declared with attr.s(auto_attribs=True), without frozen=True:  *)
(* its attributes can be assigned.  The calls are the ones of the examples, *)
(* without hint and without separator.                                     *)

Attributes == {"amount", "currency", "amount_text"}

\* the values the caller assigns
AssignedValues == {None, <<"0">>}

\* setattr(p, attribute, value) on the returned Price p
SetAttribute ==
    /\ fn = "parse_price" /\ pc = "returned"
    /\ \E a \in Attributes, v \in AssignedValues : ret' = [ret EXCEPT ![a] = v]
    /\ UNCHANGED <<args, previous, pc, amount_text, amount_num, currency>>

\* p.amount_float is read: the property computes a float from p.amount and
\* assigns nothing
ReadAmountFloat ==
    /\ fn = "parse_price" /\ pc = "returned"
    /\ UNCHANGED vars

\* the caller passes the amount_text of the Price it got to parse_price
\* again, with the same keywords; previous keeps the Price of the first call
ParseAmountText ==
    /\ fn = "parse_price" /\ pc = "returned"
    /\ previous = <<>>
    /\ ret.amount_text /= None
    /\ previous' = <<ret>>
    /\ price' = ret.amount_text
    /\ pc' = "call"
    /\ amount_text' = None
    /\ amount_num' = None
    /\ currency' = None
    /\ ret' = None
    /\ UNCHANGED <<fn, currency_hint, num, decimal_separator, locale>>

InitPrice ==
    /\ Init
    /\ price \in PriceExamples \cup LocaleExamples
    /\ currency_hint = None
    /\ decimal_separator = None

NextPrice == Next \/ SetAttribute \/ ReadAmountFloat

SpecPrice == InitPrice /\ [][NextPrice]_vars

\* the calls on the prices of the examples and on no price, with every
\* hint and every separator
InitExamples ==
    /\ Init
    /\ price \in PriceExamples \cup LocaleExamples \cup {None}

SpecExamples == InitExamples /\ [][Next]_vars

\* the calls without hint and without separator, each followed by the call
\* on its amount_text
InitAgain ==
    /\ Init
    /\ currency_hint = None
    /\ decimal_separator = None

NextAgain == Next \/ ParseAmountText

SpecAgain == InitAgain /\ [][NextAgain]_vars

----------------------------------------------------------------------------
(* parse_number and get_decimal_separator called on their own, as in their *)
(* doctests.  The texts have no line break: parse_number strips its        *)
(* argument before it looks for the separator.                             *)

MaxNumLen == 5

NumChars == {"1", ".", ",", EURO, " "}

\* the arguments of the doctests of get_decimal_separator and parse_number
NumberExamples ==
    { <<"1", "0", "0", "0">>,
      <<"1", "2", ".", "9", "9">>,
      <<"1", "2", ",", "9", "9">>,
      <<"1", "2", ".", "9", "9", "9">>,
      <<"3", ",", "0", "0", "0", "0">>,
      <<"1", ",", "2", "3", "5", EURO, "9", "9">>,
      <<".", "7", "5">>,
      <<"1", ",", "2", "3", "4">>,
      <<"1", "2", ",", "3", "4">>,
      <<"1", "2", ",", "3", "4", "5">>,
      <<"1", "2", EURO, " ", "3", "4">>,
      <<"3", "5", EURO, "9", "9">>,
      <<"1", " ", "2", "3", "4", ".", "9", "9">>,
      <<"1", ".", "2", "3", "5", EURO, "9", "9">>,
      <<"1", "4", "0", ".", "0", "0", "0">>,
      <<"4", " ", "m", "i", "l", "l", "i", "o", "n">>,
      <<"f", "o", "o">> }

NumberTexts == TextsUpTo(NumChars, MaxNumLen) \cup NumberExamples

InitNumber ==
    /\ fn \in {"parse_number", "get_decimal_separator"}
    /\ \E t \in NumberTexts :
          IF fn = "parse_number"
          THEN num = t /\ price = None /\ decimal_separator \in DecimalSeparators
          ELSE num = None /\ price = t /\ decimal_separator = None
    /\ currency_hint = None
    /\ locale = None
    /\ pc = "call"
    /\ amount_text = None
    /\ amount_num = None
    /\ currency = None
    /\ ret = None
    /\ previous = <<>>

\* parse_number(num, decimal_separator) returns or raises
CallParseNumber ==
    /\ fn = "parse_number" /\ pc = "call"
    /\ ret' = parse_number(num, decimal_separator)
    /\ pc' = IF ret' = AssertionError THEN "raised" ELSE "returned"
    /\ UNCHANGED <<args, previous, amount_text, amount_num, currency>>

\* get_decimal_separator(price) returns
CallGetDecimalSeparator ==
    /\ fn = "get_decimal_separator" /\ pc = "call"
    /\ ret' = get_decimal_separator(price)
    /\ pc' = "returned"
    /\ UNCHANGED <<args, previous, amount_text, amount_num, currency>>

NextNumber == CallParseNumber \/ CallGetDecimalSeparator

SpecNumber == InitNumber /\ [][NextNumber]_vars

----------------------------------------------------------------------------
(* parse_number called on a rendered decimal: integer digits with grouping *)
(* marks, the decimal separator, fraction digits; the separator is passed  *)
(* as decimal_separator and the grouping marks are of another kind.        *)

\* <<decimal separator, grouping mark>>
Conventions == { <<".", ",">>, <<",", ".">>, <<EURO, ".">>, <<EURO, ",">> }

\* the integer digits, in groups
IntegerGroups ==
    { <<<<"0">>>>, <<<<"7">>>>, <<<<"1", "2">>>>, <<<<"0", "0", "7">>>>,
      <<<<"1">>, <<"2", "3", "4">>>>, <<<<"1", "4", "0">>, <<"0", "0", "0">>>>,
      <<<<"1", "2">>, <<"3", "4", "5">>, <<"6", "7", "8">>>> }

FractionDigits ==
    { <<>>, <<"5">>, <<"0", "5">>, <<"5", "0">>, <<"9", "9">>, <<"1", "2", "3">>,
      <<"0", "0", "0">>, <<"1", "2", "3", "4">>,
      <<"1", "2", "3", "4", "5", "6", "7", "8", "9", "0",
        "1", "2", "3", "4", "5", "6", "7", "8", "9", "0">>,
      <<"1", "2", "3", "4", "5", "6", "7", "8", "9", "0",
        "1", "2", "3", "4", "5", "6", "7", "8", "9", "0",
        "1", "2", "3", "4", "5", "6", "7", "8">> }

\* the groups joined by the grouping mark
RECURSIVE Grouped(_, _)
Grouped(groups, mark) ==
    IF Len(groups) = 1 THEN groups[1]
    ELSE groups[1] \o <<mark>> \o Grouped(Tail(groups), mark)

Rendered(groups, fraction, convention) ==
    Grouped(groups, convention[2]) \o <<convention[1]>> \o fraction

InitRoundTrip ==
    /\ fn = "parse_number"
    /\ \E c \in Conventions, g \in IntegerGroups, f \in FractionDigits :
          num = Rendered(g, f, c) /\ decimal_separator = <<c[1]>>
    /\ price = None
    /\ currency_hint = None
    /\ locale = None
    /\ pc = "call"
    /\ amount_text = None
    /\ amount_num = None
    /\ currency = None
    /\ ret = None
    /\ previous = <<>>

NextRoundTrip == CallParseNumber

SpecRoundTrip == InitRoundTrip /\ [][NextRoundTrip]_vars

----------------------------------------------------------------------------
(* extract_currency_symbol called on its own: the price is made of at most *)
(* MaxCurrencyPieces pieces, the hint is one of a few texts.               *)

MaxCurrencyPieces == 3

CurrencyPieces ==
    { <<"N", "Z", "D">>, <<"S", "G", "D">>, <<"$">>, <<"E", "U", "R">>,
      <<"k", "r">>, <<" ">>, <<"1">>, <<"_">> }

\* the texts made of at most n of the pieces
RECURSIVE PieceTexts(_, _)
PieceTexts(pieces, n) ==
    IF n = 0 THEN {<<>>}
    ELSE LET shorter == PieceTexts(pieces, n - 1)
         IN  shorter \cup {t \o w : t \in shorter, w \in pieces}

\* the prices of the comment of _DOLLAR_REGEX
CurrencyExamples ==
    { <<"N", "Z", "D", " ", "$", "1", "2", "3">>,
      <<"S", "G", "D", "$", "1", "2", "3">> }

\* prices with a safe symbol that begins with another one: \u0440\u0443\u0431.,
\* \u0442\u04a3\u0433., $U, \u0564\u0580., euro
PrefixExamples ==
    { <<"5", " ", "U+0440", "U+0443", "U+0431", ".">>,
      <<"5", " ", "U+0442", "U+04A3", "U+0433", ".">>,
      <<"5", " ", "$", "U">>,
      <<"5", " ", "U+0564", "U+0580", ".">>,
      <<"5", " ", "e", "u", "r", "o">> }

CurrencyTexts ==
    PieceTexts(CurrencyPieces, MaxCurrencyPieces) \cup CurrencyExamples
        \cup PrefixExamples \cup {None}

CurrencyHints ==
    { None, <<>>, <<"$">>, <<"E", "U", "R">>, <<"k", "r">>, <<"1", "2">>,
      <<"N", "Z", "D", " ", "$">>, <<"S", "G", "D", "$">>, <<"U", "S", "D">>,
      <<"$", "N", "Z", "D", "_">> }

InitCurrency ==
    /\ fn = "extract_currency_symbol"
    /\ price \in CurrencyTexts
    /\ currency_hint \in CurrencyHints
    /\ num = None
    /\ decimal_separator = None
    /\ locale = None
    /\ pc = "call"
    /\ amount_text = None
    /\ amount_num = None
    /\ currency = None
    /\ ret = None
    /\ previous = <<>>

\* extract_currency_symbol(price, currency_hint) returns
CallExtractCurrencySymbol ==
    /\ fn = "extract_currency_symbol" /\ pc = "call"
    /\ ret' = extract_currency_symbol(price, currency_hint)
    /\ pc' = "returned"
    /\ UNCHANGED <<args, previous, amount_text, amount_num, currency>>

NextCurrency == CallExtractCurrencySymbol

SpecCurrency == InitCurrency /\ [][NextCurrency]_vars

----------------------------------------------------------------------------
(* _words_to_digits called on its own: the argument is made of at most     *)
(* MaxWordTokens tokens, separated by single spaces, or is one of the       *)
(* examples.                                                               *)

MaxWordTokens == 3

WordTokens ==
    { <<"1">>, <<"1", "2">>, <<"1", ".", "5">>,
      <<"f", "o", "u", "r">>, <<"t", "w", "e", "n", "t", "y">>,
      <<"h", "u", "n", "d", "r", "e", "d">>,
      <<"t", "h", "o", "u", "s", "a", "n", "d">>,
      <<"a", "n", "d">>,
      <<"f", "o", "o">>, <<"-", "5">>, <<".", "7", "5">>,
      <<"N", "a", "N">>, <<"1", ".", "2", ".", "3">> }

\* the texts of at most n tokens
RECURSIVE TokenTexts(_, _)
TokenTexts(tokens, n) ==
    IF n = 0 THEN {<<>>}
    ELSE LET shorter == TokenTexts(tokens, n - 1)
         IN  shorter \cup tokens
                 \cup {t \o <<" ">> \o w : t \in shorter \ {<<>>}, w \in tokens}

\* the arguments of the doctests and of the tests, and some blank ones
WordsExamples ==
    { <<"1", "2", "3", "4">>,
      <<"1", "2", ".", "3", "4">>,
      <<"4", " ", "m", "i", "l", "l", "i", "o", "n">>,
      <<"f", "o", "u", "r", " ", "m", "i", "l", "l", "i", "o", "n">>,
      <<"1", " ", "t", "h", "o", "u", "s", "a", "n", "d", " ", "9", "9", "9">>,
      <<"o", "n", "e", " ", "t", "h", "o", "u", "s", "a", "n", "d", " ",
        "t", "w", "o", " ", "h", "u", "n", "d", "r", "e", "d">>,
      <<" ">>, <<" ", " ">>, <<"\t", "\n">>,
      <<" ", "4", " ", " ", "m", "i", "l", "l", "i", "o", "n", "\n">> }

WordsTexts == TokenTexts(WordTokens, MaxWordTokens) \cup WordsExamples

InitWords ==
    /\ fn = "_words_to_digits"
    /\ num \in WordsTexts
    /\ price = None
    /\ currency_hint = None
    /\ decimal_separator = None
    /\ locale = None
    /\ pc = "call"
    /\ amount_text = None
    /\ amount_num = None
    /\ currency = None
    /\ ret = None
    /\ previous = <<>>

\* _words_to_digits(words) returns or raises
CallWordsToDigits ==
    /\ fn = "_words_to_digits" /\ pc = "call"
    /\ ret' = _words_to_digits(num)
    /\ pc' = IF ret' = AssertionError THEN "raised" ELSE "returned"
    /\ UNCHANGED <<args, previous, amount_text, amount_num, currency>>

NextWords == CallWordsToDigits

SpecWords == InitWords /\ [][NextWords]_vars

----------------------------------------------------------------------------
(* extract_price_text called on its own: the price is made of at most      *)
(* MaxFreePieces pieces, among them 'free' in several letter cases and in  *)
(* two halves, digits, a number word, '%' and the euro sign, or is one of   *)
(* the examples of the docstring.                                          *)

MaxFreePieces == 3

FreePieces ==
    { <<"F", "r", "e", "e">>, <<"f", "r", "e", "e">>, <<"F", "R">>, <<"E", "E">>,
      <<"5">>, <<"0">>, <<"%">>, <<" ">>, <<",">>, <<"f", "o", "u", "r">>, <<EURO>> }

\* 'Free', 'Foo' and prices in which a number comes with 'free'
FreeExamples ==
    { <<"F", "r", "e", "e">>, <<"F", "o", "o">>, <<"F", "R", "E", "E", " ", "5">>,
      <<"c", "a", "r", "e", "f", "r", "e", "e">>,
      <<"f", "r", "e", "e", " ", "5", " ", "%">>,
      <<"f", "r", "e", "e", " ", "1", " ", "x", " ", "1", EURO, "1">> }

\* prices in which words of the table are parts of longer words
EmbeddedExamples ==
    { <<"m", "o", "n", "e", "y">>, <<"B", "r", "a", "n", "d", " ", "n", "e", "w">>,
      <<"c", "o", "n", "t", "e", "n", "t">>,
      <<"B", "r", "a", "n", "d", " ", "n", "e", "w", " ", "p", "h", "o", "n", "e", " ",
        "$", "5", "0", "0">>,
      <<"n", "e", "w", " ", "$", "5", "0", "0">>, <<"n", "e", "w">> }

FreeTexts ==
    PieceTexts(FreePieces, MaxFreePieces) \cup FreeExamples \cup EmbeddedExamples

InitExtract ==
    /\ fn = "extract_price_text"
    /\ price \in FreeTexts
    /\ currency_hint = None
    /\ num = None
    /\ decimal_separator = None
    /\ locale = None
    /\ pc = "call"
    /\ amount_text = None
    /\ amount_num = None
    /\ currency = None
    /\ ret = None
    /\ previous = <<>>

\* extract_price_text(price) returns
CallExtractPriceText ==
    /\ fn = "extract_price_text" /\ pc = "call"
    /\ ret' = extract_price_text(price)
    /\ pc' = "returned"
    /\ UNCHANGED <<args, previous, amount_text, amount_num, currency>>

NextExtract == CallExtractPriceText

SpecExtract == InitExtract /\ [][NextExtract]_vars

----------------------------------------------------------------------------
(* The claims.                                                             *)

Returned(f) == fn = f /\ pc = "returned"

\* C1: for every price, currency_hint and decimal_separator (absent, '.',
\* ',' or the euro sign) parse_price returns a Price and raises no
\* exception: the assertion of _words_to_digits that a numeral starts with a
\* digit never fails on a text of the extractor.
C1_NoException == (fn = "parse_price" /\ locale = None) => pc /= "raised"

\* C2: in every Price that parse_price returns, amount is None if and only
\* if amount_text is None.
C2_AmountIffAmountText ==
    Returned("parse_price") => ((ret.amount = None) <=> (ret.amount_text = None))

\* C3: a minus sign directly before the number makes the amount negative;
\* parse_price('-5.00 EUR') has the amount -5.00 and the currency 'EUR'.
C3_MinusSignNegative ==
    Returned("parse_price") =>
        /\ (Len(price) >= 2 /\ price[1] = "-" /\ IsDigit(price[2])) =>
               (IsDecimal(ret.amount) /\ Sign(ret.amount) = 1)
        /\ (/\ price = <<"-", "5", ".", "0", "0", " ", "E", "U", "R">>
            /\ decimal_separator = None) =>
               /\ ret.amount = MkDecimal(1, 500, -2)
               /\ ret.currency = <<"E", "U", "R">>

\* a letter: a word character that is neither a digit nor the underscore
IsLetter(c) == IsWordChar(c) /\ ~IsDigit(c) /\ c /= "_"

\* the dollar codes of s as C4 describes them: at a word boundary, followed
\* by an optional '$' and then by a character that is not a letter, or by
\* the end of s
ClaimedDollarCodes(s) ==
    { DOLLAR_CODES[k] : k \in
        { k \in 1..Len(DOLLAR_CODES) :
            \E i \in 1..Len(s) :
                /\ WordBoundary(s, i)
                /\ StartsWithAt(s, i, DOLLAR_CODES[k])
                /\ LET e == i + Len(DOLLAR_CODES[k])
                   IN  \E q \in {e} \cup (IF e <= Len(s) /\ s[e] = "$"
                                          THEN {e + 1} ELSE {}) :
                          q > Len(s) \/ ~IsLetter(s[q]) } }

\* the strings among price and currency_hint that contain '$'
DollarStrings ==
    {s \in {price, currency_hint} : Truthy(s) /\ Contains(s, <<"$">>)}

\* C4: when price or currency_hint contains '$' and a dollar code at a word
\* boundary, followed by an optional '$' and then a non-letter or the end,
\* extract_currency_symbol returns such a code and not '$' or another
\* symbol; 'NZD $123' gives 'NZD' and 'SGD$123' gives 'SGD'.
C4_DollarCodePrecedence ==
    Returned("extract_currency_symbol") =>
        LET codes == UNION {ClaimedDollarCodes(s) : s \in DollarStrings}
        IN  codes /= {} => ret \in codes

\* both strings contain '$' and each has a dollar code that matches, the
\* two codes being different
TwoDollarCodes ==
    /\ DollarStrings = {price, currency_hint}
    /\ LET in_price == _search_dollar_code(price)
           in_hint == _search_dollar_code(currency_hint)
       IN  in_price /= None /\ in_hint /= None /\ in_price /= in_hint

\* C5, as stated: with a different matching dollar code in each of price
\* and currency_hint, extract_currency_symbol returns the code of
\* currency_hint.
C5_HintDollarCodeFirst ==
    (Returned("extract_currency_symbol") /\ TwoDollarCodes) =>
        ret = _search_dollar_code(currency_hint)

\* C5, amended: with a different matching dollar code in each of price and
\* currency_hint, extract_currency_symbol returns the code of price; the
\* code of currency_hint is returned when price has '$' but no matching
\* code, or no '$' at all.
C5_PriceDollarCodeFirst ==
    Returned("extract_currency_symbol") =>
        LET in_price == IF price \in DollarStrings
                        THEN _search_dollar_code(price) ELSE None
            in_hint == IF currency_hint \in DollarStrings
                       THEN _search_dollar_code(currency_hint) ELSE None
        IN  /\ (in_price /= None /\ in_hint /= None /\ in_price /= in_hint)
                   => ret = in_price
            /\ (in_price = None /\ in_hint /= None) => ret = in_hint

\* C5: a call with two different codes has returned the code of price
C5_Witness ==
    /\ Returned("extract_currency_symbol")
    /\ TwoDollarCodes
    /\ ret = _search_dollar_code(price)
    /\ ret /= _search_dollar_code(currency_hint)

\* no dollar-code check matches: no string with '$' has a matching code
NoDollarCodeMatch == \A s \in DollarStrings : _search_dollar_code(s) = None

\* the safe and the unsafe symbol found in s, None for an absent or empty s
SafeIn(s) == IF Truthy(s) THEN _search_safe_currency(s) ELSE None

UnsafeIn(s) == IF Truthy(s) THEN _search_unsafe_currency(s) ELSE None

SeparatorPlaces(s) == {d \in 1..Len(s) : s[d] \in {".", ",", EURO}}

\* the separator C7 describes: the rightmost one when 1-2 or at least 4
\* digits, and nothing else, follow it up to the end of s
ExpectedSeparator(s) ==
    IF SeparatorPlaces(s) = {} THEN None
    ELSE LET d == Max(SeparatorPlaces(s))
             n == Len(s) - d
         IN  IF /\ \A j \in (d + 1)..Len(s) : IsDigit(s[j])
                /\ (n \in {1, 2} \/ n >= 4)
             THEN <<s[d]>>
             ELSE None

UsedSeparator ==
    IF decimal_separator /= None THEN decimal_separator
    ELSE get_decimal_separator(RemoveSpaces(Strip(num)))

\* the normalisation of C8: the other separators removed from s, and the
\* separator sep, when it is not the point, turned into the point
Normalized(s, sep) ==
    LET removed == {".", ","} \ (IF sep = None THEN {} ELSE {sep[1]})
        kept == SelectSeq(s, LAMBDA c : c \notin removed)
    IN  [i \in 1..Len(kept) |->
            IF sep /= None /\ kept[i] = sep[1] THEN "." ELSE kept[i]]

\* C8: parse_number uses the separator it is given, and the detected one
\* when it is given none; without a separator every '.' and ',' is removed,
\* with '.' every ',', with ',' every '.' and the ',' becomes the point,
\* with the euro sign every '.' and ',' and the euro sign becomes the point.
\* parse_number('12,345') = 12345, parse_number('12,34') = 12.34,
\* parse_number('1.235\u20ac99') = 1235.99, parse_number('140.000', ',') =
\* 140000 and parse_number('140.000', '.') = 140.000.
C8_SeparatorNormalisation ==
    Returned("parse_number") =>
        /\ ret = _words_to_digits(Normalized(RemoveSpaces(Strip(num)), UsedSeparator))
        /\ (num = <<"1", "2", ",", "3", "4", "5">> /\ decimal_separator = None)
               => ret = MkDecimal(0, 12345, 0)
        /\ (num = <<"1", "2", ",", "3", "4">> /\ decimal_separator = None)
               => ret = MkDecimal(0, 1234, -2)
        /\ (num = <<"1", ".", "2", "3", "5", EURO, "9", "9">> /\ decimal_separator = None)
               => ret = MkDecimal(0, 123599, -2)
        /\ (num = <<"1", "4", "0", ".", "0", "0", "0">> /\ decimal_separator = <<",">>)
               => ret = MkDecimal(0, 140000, 0)
        /\ (num = <<"1", "4", "0", ".", "0", "0", "0">> /\ decimal_separator = <<".">>)
               => ret = MkDecimal(0, 140000, -3)

\* C8: a call with a separator other than the detected one has returned a
\* number
C8_Witness ==
    /\ Returned("parse_number")
    /\ decimal_separator /= None
    /\ get_decimal_separator(RemoveSpaces(Strip(num))) /= decimal_separator
    /\ Count(num, decimal_separator[1]) > 0
    /\ IsDecimal(ret)

\* every character of s from i to j is a digit
AllDigits(s, i, j) == \A k \in i..j : IsDigit(s[k])

\* the amount <before>.<after> of the digits before and after the euro sign
EuroAmount(before, after) ==
    MkDecimal(0, DigitsValue(before \o after), 0 - Len(after))

\* C9: when the price is digits, one euro sign and then either digits or a
\* space and exactly two digits, the amount text is the whole price and the
\* amount is <before>.<after>; with a space and three digits, or with a
\* second euro sign, the amount text is the number before the euro sign.
\* '35\u20ac 99' and '1,235\u20ac 99' are returned whole, '35\u20ac 999'
\* gives '35' and '99 \u20ac 79 \u20ac' gives '99'.
C9_EuroDecimalSeparator ==
    (Returned("parse_price") /\ decimal_separator = None /\ price /= None) =>
        /\ Count(price, EURO) = 1 =>
            LET e == CHOOSE i \in 1..Len(price) : price[i] = EURO
                n == Len(price)
                before == Slice(price, 1, e)
            IN  /\ (/\ e > 1 /\ e < n
                    /\ AllDigits(price, 1, e - 1) /\ AllDigits(price, e + 1, n)) =>
                       /\ ret.amount_text = price
                       /\ ret.amount = EuroAmount(before, Slice(price, e + 1, n + 1))
                /\ (/\ e > 1 /\ n = e + 3 /\ price[e + 1] = " "
                    /\ AllDigits(price, 1, e - 1) /\ AllDigits(price, e + 2, n)) =>
                       /\ ret.amount_text = price
                       /\ ret.amount = EuroAmount(before, Slice(price, e + 2, n + 1))
                /\ (/\ e > 1 /\ n = e + 4 /\ price[e + 1] = " "
                    /\ AllDigits(price, 1, e - 1) /\ AllDigits(price, e + 2, n)) =>
                       ret.amount_text = before
                /\ price = <<"1", ",", "2", "3", "5", EURO, " ", "9", "9">> =>
                       ret.amount_text = price
        /\ price = <<"9", "9", " ", EURO, " ", "7", "9", " ", EURO>> =>
               ret.amount_text = <<"9", "9">>

\* the price is one number-like run, which starts and ends with a digit
\* and is directly followed by '%'; it has no other digit, no number word
\* and no 'free'
PercentRunOnly(s) ==
    /\ \E i \in 1..Len(s) : \E j \in i..(Len(s) - 1) :
          /\ IsDigit(s[i]) /\ IsDigit(s[j])
          /\ \A k \in i..j : IsDigit(s[k]) \/ s[k] \in {".", ",", " "}
          /\ s[j + 1] = "%"
          /\ \A k \in 1..Len(s) : IsDigit(s[k]) => k \in i..j
    /\ \A k \in 1..Len(s) : _NUMBER_WORDS_PATTERN(s, k) = <<>>
    /\ ~Contains(Lower(s), <<"f", "r", "e", "e">>)

\* C10: a number-like run directly followed by '%' is never the amount
\* text: for a price whose only digits form such a run and which has no
\* 'free', the extractor returns None ('50%', '50% OFF', '5.0%', '1,000%').
C10_PercentExcluded ==
    (/\ fn = "parse_price" /\ pc /= "call"
     /\ price /= None
     /\ PercentRunOnly(price)) => amount_text = None

\* the price is a prefix without a digit, a separator or a number word,
\* then a point, then digits up to the end
PointThenDigits(s) ==
    \E d \in 1..(Len(s) - 1) :
        /\ s[d] = "."
        /\ AllDigits(s, d + 1, Len(s))
        /\ \A k \in 1..(d - 1) :
              /\ ~IsDigit(s[k]) /\ s[k] \notin {".", ",", EURO}
              /\ _NUMBER_WORDS_PATTERN(s, k) = <<>>

\* C11: a decimal point that starts the number is kept in the amount text:
\* for a price '<non-numeric prefix>.<digits>' the amount text begins with
\* '.'; extract_price_text('$.75') is '.75' and parse_price('$.75') has the
\* amount 0.75.
C11_LeadingPointKept ==
    (Returned("parse_price") /\ decimal_separator = None /\ price /= None) =>
        /\ PointThenDigits(price) =>
               (ret.amount_text /= None /\ Head(ret.amount_text) = ".")
        /\ price = <<"$", ".", "7", "5">> =>
               /\ ret.amount_text = <<".", "7", "5">>
               /\ ret.amount = MkDecimal(0, 75, -2)

\* the places of s where a number-like run can start: a digit or a number
\* word
NumberPlaces(s) ==
    {i \in 1..Len(s) : IsDigit(s[i]) \/ _NUMBER_WORDS_PATTERN(s, i) /= <<>>}

\* C12: when the price has several number-like runs, the amount text is
\* taken from the run that starts earliest and is not disqualified by '%',
\* also when a later run is the one attached to the euro sign: for a price
\* without '%' the amount text starts where the first run starts.
\* 'was $20, now $15' gives '20'.
C12_EarliestRun ==
    (/\ fn = "parse_price" /\ pc /= "call"
     /\ price /= None
     /\ NumberPlaces(CollapseSpaces(price)) /= {}) =>
        /\ ~Contains(price, <<"%">>) =>
               /\ amount_text /= None
               /\ StartsWithAt(CollapseSpaces(price),
                               Min(NumberPlaces(CollapseSpaces(price))), amount_text)
        /\ price = <<"w", "a", "s", " ", "$", "2", "0", ",", " ",
                     "n", "o", "w", " ", "$", "1", "5">> =>
               amount_text = <<"2", "0">>

\* the value of '<a> <w>' and of '<a> <w> <b>': a times the scale of the
\* word w, plus b
PhraseValue(a, w, b) ==
    DigitsValue(a) * Pow10(NumberWord(w).pow) + DigitsValue(b)

\* C13: for a price made of a currency symbol, digits and number words,
\* parse_price returns the whole number phrase as amount_text and its value
\* as amount: '$ 4 million' gives ('4 million', 4000000), '$ four million'
\* ('four million', 4000000) and '$ 1 thousand 999 \u20ac 99'
\* ('1 thousand 999 \u20ac 99', 1999.99).
C13_NumberPhrase ==
    (Returned("parse_price") /\ decimal_separator = None /\ price /= None) =>
        /\ \A a \in PhraseNumerals, w \in PhraseWords, b \in PhraseNumerals \cup {<<>>} :
              price = <<"$", " ">> \o Phrase(a, w, b) =>
                  /\ ret.amount_text = Phrase(a, w, b)
                  /\ ret.amount = DecimalOfInt(PhraseValue(a, w, b))
        /\ price = <<"$", " ", "4", " ", "m", "i", "l", "l", "i", "o", "n">> =>
              /\ ret.amount_text = <<"4", " ", "m", "i", "l", "l", "i", "o", "n">>
              /\ ret.amount = DecimalOfInt(4000000)
        /\ price = <<"$", " ", "f", "o", "u", "r", " ", "m", "i", "l", "l", "i", "o", "n">> =>
              /\ ret.amount_text = <<"f", "o", "u", "r", " ", "m", "i", "l", "l", "i", "o", "n">>
              /\ ret.amount = DecimalOfInt(4000000)
        /\ price = <<"$", " ", "1", " ", "t", "h", "o", "u", "s", "a", "n", "d", " ",
                     "9", "9", "9", " ", EURO, " ", "9", "9">> =>
              /\ ret.amount_text = <<"1", " ", "t", "h", "o", "u", "s", "a", "n", "d", " ",
                                     "9", "9", "9", " ", EURO, " ", "9", "9">>
              /\ ret.amount = MkDecimal(0, 199999, -2)

\* a plain numeral: digits with at most one decimal point, a digit first
IsPlainNumeral(t) ==
    /\ t /= <<>>
    /\ IsDigit(t[1])
    /\ \A k \in 1..Len(t) : IsDigit(t[k]) \/ t[k] = "."
    /\ Count(t, ".") <= 1

\* the value of a plain numeral
NumeralValue(t) ==
    LET digits == SelectSeq(t, LAMBDA c : c /= ".")
        point == IF Count(t, ".") = 0 THEN Len(t) + 1
                 ELSE CHOOSE k \in 1..Len(t) : t[k] = "."
    IN  MkDecimal(0, DigitsValue(digits), 0 - (Len(t) - point + (IF point > Len(t) THEN 1 ELSE 0)))

\* the two registers <<current, result>> after the token t, as C14 describes
\* the step
FoldStep(registers, t) ==
    LET pow == IF IsNumberWord(t) THEN NumberWord(t).pow ELSE DigitRunEnd(t, 1) - 1
        increment == IF IsNumberWord(t) THEN DecimalOfInt(NumberWord(t).increment)
                     ELSE NumeralValue(t)
        current == DecimalAdd(DecimalScale(registers[1], pow), increment)
    IN  IF IsNumberWord(t) /\ pow > 2
        THEN <<DecimalOfInt(0), DecimalAdd(registers[2], current)>>
        ELSE <<current, registers[2]>>

\* the value of the fold over the tokens: result + current at the end
FoldValue(tokens) ==
    LET after[k \in 0..Len(tokens)] ==
            IF k = 0 THEN <<DecimalOfInt(0), DecimalOfInt(0)>>
            ELSE FoldStep(after[k - 1], tokens[k])
    IN  DecimalAdd(after[Len(tokens)][2], after[Len(tokens)][1])

\* every token of the text is a number word or a plain numeral
AllTokensValid(s) ==
    /\ Split(s) /= <<>>
    /\ \A k \in 1..Len(Split(s)) : IsNumberWord(Split(s)[k]) \/ IsPlainNumeral(Split(s)[k])

\* C14: _words_to_digits is a fold with two registers over the tokens
\* separated by whitespace: each token sets current = current * scale +
\* increment (a word its pair of the table, a numeral 10^(its leading
\* digits) and its value); after a word whose scale exceeds 100 current is
\* added to result and reset to 0; the value returned is result + current.
\* 'four million' = '4 million' = 4000000, '1 thousand 999' = 1999 and
\* 'one thousand two hundred' = 1200.
C14_TwoRegisterFold ==
    (fn = "_words_to_digits" /\ pc /= "call" /\ AllTokensValid(num)) =>
        /\ pc = "returned"
        /\ IsDecimal(ret)
        /\ DecimalEq(ret, FoldValue(Split(num)))
        /\ num \in { <<"4", " ", "m", "i", "l", "l", "i", "o", "n">>,
                     <<"f", "o", "u", "r", " ", "m", "i", "l", "l", "i", "o", "n">> }
               => ret = DecimalOfInt(4000000)
        /\ num = <<"1", " ", "t", "h", "o", "u", "s", "a", "n", "d", " ", "9", "9", "9">>
               => ret = DecimalOfInt(1999)
        /\ num = <<"o", "n", "e", " ", "t", "h", "o", "u", "s", "a", "n", "d", " ",
                   "t", "w", "o", " ", "h", "u", "n", "d", "r", "e", "d">>
               => ret = DecimalOfInt(1200)

\* C14: a text in which a word of a scale above 100 is followed by another
\* token has been folded to a number
C14_Witness ==
    /\ Returned("_words_to_digits")
    /\ AllTokensValid(num)
    /\ \E k \in 1..(Len(Split(num)) - 1) :
          IsNumberWord(Split(num)[k]) /\ NumberWord(Split(num)[k]).pow > 2
    /\ IsDecimal(ret) /\ Coef(ret) > 0

\* C15: parse_price takes a keyword locale and with locale='es' knows the
\* number words of that language: parse_price('$ 4 millones', locale='es')
\* returns the amount 4000000 and the amount_text '4 millones'.
C15_LocaleKeyword ==
    (/\ fn = "parse_price" /\ pc /= "call"
     /\ locale = <<"e", "s">>
     /\ price = <<"$", " ", "4", " ", "m", "i", "l", "l", "o", "n", "e", "s">>) =>
        /\ pc /= "raised"
        /\ pc = "returned" =>
               /\ ret.amount = DecimalOfInt(4000000)
               /\ ret.amount_text = <<"4", " ", "m", "i", "l", "l", "o", "n", "e", "s">>

\* C16: a Price is immutable once constructed: after parse_price has
\* returned, no operation on the Price, an assignment to amount, currency
\* or amount_text or a read of amount_float, changes its three fields.
C16_PriceImmutable ==
    [][(fn = "parse_price" /\ pc = "returned") => ret' = ret]_vars


\* C17: a decimal_separator other than '.', ',' and '\u20ac', such as ';'
\* or ' ', raises no exception in parse_price.
C17_OtherSeparatorNoException ==
    (fn = "parse_price" /\ locale = None /\ decimal_separator \in OtherSeparators) =>
        pc /= "raised"


\* C18: _words_to_digits returns None, without raising, whenever some
\* token is neither a number word nor a plain numeral of digits with at most
\* one decimal point ('foo', '1.2.3', '-5', 'NaN', '.75'), and returns None
\* rather than 0 for an empty or all-whitespace text.
C18_InvalidTokenNone ==
    (fn = "_words_to_digits" /\ pc /= "call" /\ ~AllTokensValid(num)) =>
        pc = "returned" /\ ret = None


\* a number-like run is matched in the price, by the pattern of the euro
\* prices or by the general one
NumberRunMatched(s) ==
    LET p == CollapseSpaces(s)
    IN  \/ Count(p, EURO) = 1 /\ EuroSearch(p) /= NoMatch
        \/ NumberSearch(p) /= NoMatch

\* the lower-cased price contains 'free'
ContainsFree(s) == Contains(Lower(s), <<"f", "r", "e", "e">>)

\* t is a part of s that begins with a digit or a number word
IsNumberPartOf(t, s) ==
    /\ t /= None /\ t /= <<>>
    /\ Contains(CollapseSpaces(s), t)
    /\ IsDigit(t[1]) \/ _NUMBER_WORDS_PATTERN(t, 1) /= <<>>

C19_WitnessNumber ==
    /\ Returned("extract_price_text")
    /\ ContainsFree(price) /\ NumberRunMatched(price)
    /\ ret = <<"5">>


\* C20: idempotence: when parse_price(x), called without decimal_separator
\* and without hint, gives an amount_text that is not None, parse_price of
\* that amount_text gives the same amount.
C20_Idempotent ==
    (fn = "parse_price" /\ previous /= <<>> /\ pc \in {"returned", "raised"}) =>
        /\ pc = "returned"
        /\ IF ret.amount = None \/ previous[1].amount = None
           THEN ret.amount = previous[1].amount
           ELSE DecimalEq(ret.amount, previous[1].amount)


\* the decimal I.F of a rendered text: the digits before the separator
\* without their grouping marks, and the digits after it
RenderedDecimal(text, sep) ==
    LET p == CHOOSE k \in 1..Len(text) : text[k] = sep
        integer == SelectSeq(SubSeq(text, 1, p - 1), IsDigit)
        fraction == SubSeq(text, p + 1, Len(text))
    IN  FromDigits(0, integer \o fraction, 0 - Len(fraction))

\* C21: round trip: a non-negative decimal written as its integer digits
\* I, with grouping marks of the other kind inside, a separator among '.',
\* ',' and '\u20ac', and fraction digits F of any length is parsed by
\* parse_number, given that separator, to exactly the decimal I.F.
C21_RoundTrip ==
    (fn = "parse_number" /\ pc /= "call" /\ price = None /\ previous = <<>>
        /\ \E c \in Conventions, g \in IntegerGroups, f \in FractionDigits :
              num = Rendered(g, f, c) /\ decimal_separator = <<c[1]>>) =>
        /\ pc = "returned"
        /\ IsDecimal(ret)
        /\ DecimalEq(ret, RenderedDecimal(num, decimal_separator[1]))


\* t is a part of the price or of the hint
AppearsIn(t, p, h) ==
    \/ p /= None /\ Contains(p, t)
    \/ h /= None /\ Contains(h, t)

\* C22: parse_price composes its parts: amount_text is the result of
\* extract_price_text on the price, amount is parse_number of that text, and
\* currency is the match of extract_currency_symbol over the price and the
\* hint, without the whitespace around it, as it appears in the text and
\* not mapped to a code: 'price: $12.99' gives (12.99, '$', '12.99') and
\* '1,235 USD' gives (1235, 'USD', '1,235').
C22_Composition ==
    Returned("parse_price") =>
        LET text == IF price = None THEN None ELSE extract_price_text(price)
            symbol == extract_currency_symbol(price, currency_hint)
        IN  /\ ret.amount_text = text
            /\ ret.amount = IF text = None THEN None
                            ELSE parse_number(text, decimal_separator)
            /\ ret.currency = IF symbol = None THEN None ELSE Strip(symbol)
            /\ ret.currency /= None => AppearsIn(ret.currency, price, currency_hint)
            /\ (price = <<"p", "r", "i", "c", "e", ":", " ", "$", "1", "2", ".", "9", "9">>
                   /\ currency_hint = None /\ decimal_separator = None) =>
                   ret = Price(MkDecimal(0, 1299, -2), <<"$">>, <<"1", "2", ".", "9", "9">>)
            /\ (price = <<"1", ",", "2", "3", "5", " ", "U", "S", "D">>
                   /\ currency_hint = None /\ decimal_separator = None) =>
                   ret = Price(DecimalOfInt(1235), <<"U", "S", "D">>,
                               <<"1", ",", "2", "3", "5">>)

\* C22: '1,235 USD' with the hint ' $' has been parsed to the amount 1235
\* of the price and to the currency '$' of the hint, without the space
C22_Witness ==
    /\ Returned("parse_price")
    /\ price = <<"1", ",", "2", "3", "5", " ", "U", "S", "D">>
    /\ currency_hint = <<" ", "$">>
    /\ ret.amount = DecimalOfInt(1235)
    /\ ret.amount_text = <<"1", ",", "2", "3", "5">>
    /\ ret.currency = <<"$">>


UnitWords ==
    {_NUMBER_WORDS[k].word : k \in {j \in 1..Len(_NUMBER_WORDS) :
        _NUMBER_WORDS[j].pow = 0 /\ _NUMBER_WORDS[j].word /= <<"a", "n", "d">>}}

\* C24: every word of the table is extracted whole: for a word w with
\* the scale 1 and the increment n, parse_price(w) has amount_text = w and
\* amount = n, also when w begins with another word of the table
\* (fourteen, sixteen, ..., sixty, ..., ninety).
C24_WholeWord ==
    (Returned("parse_price") /\ price \in UnitWords /\ previous = <<>>
        /\ currency_hint = None /\ decimal_separator = None) =>
        /\ ret.amount_text = price
        /\ ret.amount = DecimalOfInt(NumberWord(price).increment)


HasDigit(s) == \E k \in 1..Len(s) : IsDigit(s[k])

\* every word of the table that occurs in s, and one does, occurs inside a
\* longer word: a letter stands before it or after it
OnlyEmbeddedWords(s) ==
    /\ \E i \in 1..Len(s) : _NUMBER_WORDS_PATTERN(s, i) /= <<>>
    /\ \A i \in 1..Len(s) :
          LET ends == _NUMBER_WORDS_PATTERN(s, i)
          IN  \A k \in 1..Len(ends) :
                 \/ i > 1 /\ IsLetter(s[i - 1])
                 \/ ends[k] <= Len(s) /\ IsLetter(s[ends[k]])

\* C25: number words are recognized as whole words only: for a price
\* without digits and without 'free' in which words of the table occur
\* only inside longer words ('money', 'Brand new', 'content')
\* extract_price_text returns None, and an embedded word never takes the
\* place of a later run of digits ('Brand new phone $500' gives '500').
C25_WholeWordsOnly ==
    (Returned("extract_price_text") /\ OnlyEmbeddedWords(price)) =>
        /\ (~HasDigit(price) /\ ~ContainsFree(price)) => ret = None
        /\ HasDigit(price) => ret /= None /\ IsDigit(ret[1])
        /\ price = <<"B", "r", "a", "n", "d", " ", "n", "e", "w", " ", "p", "h", "o",
                     "n", "e", " ", "$", "5", "0", "0">> => ret = <<"5", "0", "0">>


\* a is a proper prefix of b
ProperPrefix(a, b) == Len(a) < Len(b) /\ SubSeq(b, 1, Len(a)) = a

\* the safe symbols that match in s at i
SafeSymbolsAt(s, i) ==
    {SAFE_CURRENCY_SYMBOLS[k] : k \in {j \in 1..Len(SAFE_CURRENCY_SYMBOLS) :
        StartsWithAt(s, i, SAFE_CURRENCY_SYMBOLS[j])}}

\* the longest safe symbol that matches at the leftmost place where one does
LongestLeftmostSafe(s) ==
    LET places == {i \in 1..Len(s) : SafeSymbolsAt(s, i) /= {}}
        at == SafeSymbolsAt(s, Min(places))
    IN  IF places = {} THEN None
        ELSE CHOOSE w \in at : \A v \in at : Len(v) <= Len(w)

\* C26: in the list of safe symbols a symbol that begins with another one
\* is listed before it (looked at for the symbols that match in the
\* price), so the search of the safe symbols returns the
\* longest safe symbol that matches at the leftmost place of a match:
\* '\u0440\u0443\u0431.' and not '\u0440\u0443\u0431', '\u0442\u04a3\u0433.' and not
\* '\u0442\u04a3\u0433', '$U' and not '$'.
C26_LongestSafeSymbol ==
    (Returned("extract_currency_symbol") /\ Truthy(price)) =>
        /\ \A i \in 1..Len(price) :
              LET at == {j \in 1..Len(SAFE_CURRENCY_SYMBOLS) :
                            StartsWithAt(price, i, SAFE_CURRENCY_SYMBOLS[j])}
              IN  \A j, k \in at :
                     ProperPrefix(SAFE_CURRENCY_SYMBOLS[j], SAFE_CURRENCY_SYMBOLS[k])
                         => k < j
        /\ _search_safe_currency(price) = LongestLeftmostSafe(price)
        /\ (currency_hint = None /\ _search_dollar_code(price) = None
               /\ LongestLeftmostSafe(price) /= None) =>
               ret = LongestLeftmostSafe(price)


\* C27: a decimal fraction in a numeral that a scale word follows is
\* honoured: parse_price('$4.5 million') has the amount 4500000, the
\* parse_number of its amount_text '4.5 million'; the separator of a numeral
\* is detected also when the text does not end with the digits of the
\* numeral.
C27_FractionBeforeScaleWord ==
    (Returned("parse_price") /\ previous = <<>>
        /\ price = <<"$", "4", ".", "5", " ", "m", "i", "l", "l", "i", "o", "n">>
        /\ decimal_separator = None) =>
        /\ ret.amount_text = <<"4", ".", "5", " ", "m", "i", "l", "l", "i", "o", "n">>
        /\ get_decimal_separator(ret.amount_text) = <<".">>
        /\ IsDecimal(ret.amount)
        /\ DecimalEq(ret.amount, DecimalOfInt(4500000))

====
